---- MODULE Spec2Model ----
(***************************************************************************)
(* A model of ratmap's RTMP chunk-stream layer: the handshake              *)
(* (src/src/chunk/handshake.rs), the chunk header codec                    *)
(* (src/src/chunk/header), the tokio transport                             *)
(* (src/src/chunk/impls/tokio.rs) and aggregate messages                   *)
(* (src/src/message/payload/aggregate.rs).                                 *)
(*                                                                         *)
(* A u32 is a pair <<hi, lo>> of 16-bit halves, value hi * 65536 + lo, so  *)
(* that every u32 and its arithmetic modulo 2^32 can be written down.      *)
(* Bytes on a transport are sequences of numbers in 0..255.                *)
(***************************************************************************)
EXTENDS Integers, Sequences, FiniteSets, TLC

VARIABLES
  overflow_checks, \* the build: TRUE = overflow-checks on (debug), FALSE = wrapping (release)
  ep,              \* endpoint -> the state of its handshake() call
  written,         \* endpoint -> every byte it has written to the transport, in order
  nread,           \* endpoint -> how many of the other side's bytes it has consumed
  peer,            \* the scripted peer: what it sends as S0, S1, S2 and how far it is
  incoming,        \* inbound ChunkStreamMap: chunk stream id -> its state
  outgoing,        \* outbound: chunk stream id -> the first header of its current message
  tx,              \* the chunk header written last, with its bytes
  wire,            \* header bytes (and what follows them) not yet decoded
  rx,              \* the outcome of the last header decode
  nheaders,        \* how many headers have been written
  engine,          \* the chunk stream engine: "running", or the failure it ended with
  sent,            \* the messages handed to send(), in order
  received,        \* the messages recv() has yielded, in order
  io,              \* the transport and the write_chunk and read_chunk calls on it
  agg              \* the aggregate payload written or read last

hs_vars == <<ep, written, nread, peer>>

codec_vars == <<incoming, outgoing, tx, wire, rx, nheaders>>

engine_vars == <<engine, sent, received>>

io_vars == <<io, agg>>

vars == <<overflow_checks, hs_vars, codec_vars, engine_vars, io_vars>>

----------------------------------------------------------------------------
(* u32 values and their big-endian wire form *)

U32(hi, lo) == <<hi, lo>>

U32_ZERO == U32(0, 0)

U32_MAX == U32(65535, 65535)

\* tokio write_u32: four bytes, big-endian
BeBytes(x) == <<x[1] \div 256, x[1] % 256, x[2] \div 256, x[2] % 256>>

\* tokio read_u32: four bytes, big-endian
FromBeBytes(b) == U32(b[1] * 256 + b[2], b[3] * 256 + b[4])

U32Lt(a, b) == a[1] < b[1] \/ (a[1] = b[1] /\ a[2] < b[2])

\* a - b modulo 2^32
WrappingSub(a, b) ==
  LET lo     == a[2] - b[2]
      borrow == IF lo < 0 THEN 1 ELSE 0
      hi     == a[1] - b[1] - borrow
  IN  U32((hi + 65536) % 65536, (lo + 65536) % 65536)

\* a + b modulo 2^32
WrappingAdd(a, b) ==
  LET lo == a[2] + b[2]
      hi == a[1] + b[1] + (lo \div 65536)
  IN  U32(hi % 65536, lo % 65536)

----------------------------------------------------------------------------
(* The handshake *)

\* the size of the random block of C1/S1 and of its echo in C2/S2
RANDOM_LEN == 1528

RANDOM_BYTES ==
  <<
     65, 102, 116, 101, 114, 32, 97, 100, 100, 105, 110, 103, 32, 82, 117, 115, 116, 32, 115, 117, 112, 112, 111, 114,
     116, 32, 116, 111, 32, 76, 105, 110, 117, 120, 32, 107, 101, 114, 110, 101, 108, 32, 105, 110, 32, 50, 48, 50,
     49, 32, 76, 105, 110, 117, 120, 32, 114, 101, 112, 111, 32, 104, 97, 115, 32, 98, 101, 101, 110, 32, 102, 108,
     111, 111, 100, 101, 100, 32, 119, 105, 116, 104, 32, 112, 97, 116, 99, 104, 101, 115, 32, 97, 110, 100, 32, 112,
     117, 108, 108, 32, 114, 101, 113, 117, 101, 115, 116, 115, 32, 102, 114, 111, 109, 32, 98, 114, 97, 118, 101, 32,
     82, 117, 115, 116, 97, 99, 101, 97, 110, 115, 32, 114, 101, 119, 114, 105, 116, 105, 110, 103, 32, 99, 114, 105,
     116, 105, 99, 97, 108, 32, 99, 111, 109, 112, 111, 110, 101, 110, 116, 115, 32, 105, 110, 32, 82, 117, 115, 116,
     32, 116, 111, 32, 101, 110, 115, 117, 114, 101, 32, 116, 104, 101, 105, 114, 32, 115, 116, 97, 98, 105, 108, 105,
     116, 121, 32, 97, 110, 100, 32, 109, 101, 109, 111, 114, 121, 32, 115, 97, 102, 101, 116, 121, 32, 116, 104, 97,
     116, 32, 67, 32, 99, 111, 117, 108, 100, 32, 110, 101, 118, 101, 114, 32, 103, 117, 97, 114, 97, 110, 116, 101,
     101, 46, 32, 65, 102, 116, 101, 114, 32, 97, 32, 102, 101, 119, 32, 112, 97, 105, 110, 102, 117, 108, 32, 121,
     101, 97, 114, 115, 32, 111, 102, 32, 99, 111, 100, 101, 32, 114, 101, 118, 105, 101, 119, 115, 32, 97, 110, 100,
     32, 115, 97, 108, 116, 32, 99, 111, 109, 105, 110, 103, 32, 102, 114, 111, 109, 32, 67, 32, 112, 114, 111, 103,
     114, 97, 109, 109, 101, 114, 115, 32, 108, 111, 115, 105, 110, 103, 32, 116, 104, 101, 105, 114, 32, 106, 111, 98,
     115, 32, 108, 101, 102, 116, 32, 97, 110, 100, 32, 114, 105, 103, 104, 116, 32, 119, 101, 32, 104, 97, 118, 101,
     32, 102, 105, 110, 97, 108, 108, 121, 32, 97, 99, 104, 105, 101, 118, 101, 100, 32, 97, 32, 49, 48, 48, 37,
     32, 82, 117, 115, 116, 32, 76, 105, 110, 117, 120, 32, 107, 101, 114, 110, 101, 108, 46, 32, 78, 111, 116, 32,
     97, 32, 115, 105, 110, 103, 108, 101, 32, 107, 101, 114, 110, 101, 108, 32, 112, 97, 110, 105, 99, 32, 111, 114,
     32, 99, 114, 97, 115, 104, 32, 104, 97, 115, 32, 98, 101, 101, 110, 32, 114, 101, 112, 111, 114, 116, 101, 100,
     32, 101, 118, 101, 114, 32, 115, 105, 110, 99, 101, 46, 32, 73, 110, 32, 102, 97, 99, 116, 44, 32, 116, 104,
     101, 32, 107, 101, 114, 110, 101, 108, 32, 119, 97, 115, 32, 115, 111, 32, 115, 116, 97, 98, 108, 101, 32, 116,
     104, 97, 116, 32, 77, 105, 99, 114, 111, 115, 111, 102, 116, 32, 103, 97, 118, 101, 32, 117, 112, 32, 97, 108,
     108, 32, 116, 104, 101, 105, 114, 32, 101, 102, 102, 111, 114, 116, 115, 32, 105, 110, 32, 87, 105, 110, 100, 111,
     119, 115, 32, 97, 115, 32, 119, 101, 32, 107, 110, 111, 119, 32, 105, 116, 44, 32, 114, 101, 119, 114, 111, 116,
     101, 32, 105, 116, 32, 105, 110, 32, 82, 117, 115, 116, 44, 32, 97, 110, 100, 32, 87, 105, 110, 100, 111, 119,
     115, 32, 98, 101, 99, 97, 109, 101, 32, 106, 117, 115, 116, 32, 97, 110, 111, 116, 104, 101, 114, 32, 100, 105,
     115, 116, 114, 111, 32, 105, 110, 32, 116, 104, 101, 32, 76, 105, 110, 117, 120, 32, 101, 99, 111, 115, 121, 115,
     116, 101, 109, 46, 32, 79, 116, 104, 101, 114, 32, 112, 114, 111, 106, 101, 99, 116, 115, 32, 97, 110, 100, 32,
     99, 111, 109, 112, 97, 110, 105, 101, 115, 32, 115, 111, 111, 110, 32, 102, 111, 108, 108, 111, 119, 101, 100, 32,
     116, 104, 101, 32, 116, 114, 101, 110, 100, 32, 45, 32, 105, 102, 32, 121, 111, 117, 32, 105, 110, 115, 116, 97,
     108, 108, 32, 97, 110, 121, 32, 76, 105, 110, 117, 120, 32, 100, 105, 115, 116, 114, 111, 32, 110, 111, 119, 97,
     100, 97, 121, 115, 32, 105, 116, 32, 119, 111, 110, 39, 116, 32, 99, 111, 109, 101, 32, 119, 105, 116, 104, 32,
     103, 114, 101, 112, 44, 32, 100, 117, 32, 111, 114, 32, 99, 97, 116, 32, 45, 32, 116, 104, 101, 114, 101, 32,
     105, 115, 32, 111, 110, 108, 121, 32, 114, 105, 112, 103, 114, 101, 112, 44, 32, 100, 117, 115, 116, 32, 97, 110,
     100, 32, 98, 97, 116, 46, 32, 68, 111, 32, 121, 111, 117, 32, 117, 115, 101, 32, 97, 32, 103, 114, 97, 112,
     104, 105, 99, 97, 108, 32, 105, 110, 116, 101, 114, 102, 97, 99, 101, 63, 32, 71, 111, 111, 100, 32, 108, 117,
     99, 107, 32, 117, 115, 105, 110, 103, 32, 100, 101, 112, 114, 101, 99, 97, 116, 101, 100, 32, 112, 114, 111, 106,
     101, 99, 116, 115, 32, 115, 117, 99, 104, 32, 97, 115, 32, 87, 97, 121, 108, 97, 110, 100, 44, 32, 71, 110,
     111, 109, 101, 32, 111, 114, 32, 75, 68, 69, 32, 45, 32, 119, 97, 121, 108, 97, 110, 100, 45, 114, 115, 44,
     32, 82, 115, 111, 109, 101, 32, 97, 110, 100, 32, 82, 68, 69, 32, 105, 115, 32, 119, 104, 101, 114, 101, 32,
     105, 116, 39, 115, 32, 97, 108, 108, 32, 97, 116, 46, 32, 84, 104, 101, 32, 111, 110, 108, 121, 32, 115, 101,
     114, 105, 111, 117, 115, 32, 98, 114, 111, 119, 115, 101, 114, 32, 97, 118, 97, 105, 108, 97, 98, 108, 101, 32,
     105, 115, 32, 83, 101, 114, 118, 111, 32, 97, 110, 100, 32, 105, 116, 32, 104, 111, 108, 100, 115, 32, 57, 56,
     37, 32, 111, 102, 32, 116, 104, 101, 32, 109, 97, 114, 107, 101, 116, 32, 115, 104, 97, 114, 101, 46, 32, 69,
     118, 101, 114, 121, 32, 110, 101, 119, 32, 103, 97, 109, 101, 32, 114, 101, 108, 101, 97, 115, 101, 100, 32, 116,
     111, 32, 116, 104, 101, 32, 109, 97, 114, 107, 101, 116, 44, 32, 105, 110, 99, 108, 117, 100, 105, 110, 103, 32,
     116, 104, 111, 115, 101, 32, 109, 97, 100, 101, 32, 98, 121, 32, 65, 65, 65, 32, 100, 101, 118, 101, 108, 111,
     112, 101, 114, 115, 44, 32, 105, 115, 32, 117, 115, 105, 110, 103, 32, 116, 104, 101, 32, 109, 111, 115, 116, 32,
     115, 116, 97, 98, 108, 101, 44, 32, 102, 97, 115, 116, 32, 97, 110, 100, 32, 117, 115, 101, 114, 45, 102, 114,
     105, 101, 110, 100, 108, 121, 32, 103, 97, 109, 101, 32, 101, 110, 103, 105, 110, 101, 32, 45, 32, 66, 101, 118,
     121, 32, 118, 52, 46, 50, 48, 46, 32, 80, 101, 111, 112, 108, 101, 32, 108, 111, 118, 101, 32, 116, 104, 101,
     105, 114, 32, 115, 121, 115, 116, 101, 109, 32, 97, 110, 100, 32, 104, 111, 119, 32, 115, 116, 97, 98, 108, 101,
     44, 32, 115, 97, 102, 101, 32, 97, 110, 100, 32, 105, 110, 99, 114, 101, 100, 105, 98, 108, 121, 32, 102, 97,
     115, 116, 32, 105, 116, 32, 105, 115, 46, 32, 80, 114, 111, 112, 114, 105, 101, 116, 97, 114, 121, 32, 115, 111,
     102, 116, 119, 97, 114, 101, 32, 105, 115, 32, 98, 97, 115, 105, 99, 97, 108, 108, 121, 32, 110, 111, 110, 45,
     101, 120, 105, 115, 116, 101, 110, 116, 32, 97, 116, 32, 116, 104, 105, 115, 32, 112, 111, 105, 110, 116, 46, 32,
     66, 121, 32, 116, 104, 101, 32, 121, 101, 97, 114, 32, 50, 48, 51, 53, 32, 101, 118, 101, 114, 121, 32, 115,
     105, 110, 103, 108, 101, 32, 112, 114, 105, 110, 116, 101, 114, 44, 32, 108, 97, 112, 116, 111, 112, 44, 32, 105,
     110, 100, 117, 115, 116, 114, 105, 97, 108, 32, 114, 111, 98, 111, 116, 44, 32, 114, 111, 99, 107, 101, 116, 44,
     32, 97, 117, 116, 111, 110, 111, 109, 111, 117, 115, 32, 99, 97, 114, 44, 32, 115, 117, 98, 109, 97, 114, 105,
     110, 101, 44, 32, 115, 101, 120, 32, 116, 111, 121, 32, 105, 115, 32, 112, 111, 119, 101, 114, 101, 100, 32, 98,
     121, 32, 115, 111, 102, 116, 119, 97, 114, 101, 32, 119, 114, 105, 116, 116, 101, 110, 32, 105, 110, 32, 82, 117,
     115, 116, 46, 32, 65, 110, 100, 32, 116, 104, 101, 121, 32, 110, 101, 118, 101, 114, 32, 99, 114, 97, 115, 104,
     32, 111, 114, 32, 102, 97, 105, 108, 46, 32, 84, 104, 101, 32, 119, 45
  >>

\* the block a peer sends as the random part of S1
PEER_RANDOM == [i \in 1..RANDOM_LEN |-> (i * 7) % 256]

Endpoints == {"local", "peer"}

Other(e) == IF e = "local" THEN "peer" ELSE "local"

\* what clock.now() may return
ClockValues == {U32_ZERO, U32(0, 1)}

\* the awaits of send_0_1 and of recv_0_1, named by the operation that is next
Send01Labels == {"write_version", "write_timestamp", "write_random", "flush_0_1"}

Recv01Labels == {"read_version", "read_zero", "read_peer_timestamp", "read_random"}

\* a handshake() call that has just split the stream
EpInit ==
  [send |-> "write_version", recv |-> "read_version",
   our_timestamp |-> U32_ZERO, their_timestamp |-> U32_ZERO,
   their_random_bytes |-> <<>>, received_at |-> U32_ZERO,
   they_received_at |-> U32_ZERO, result |-> "running", latency |-> U32_ZERO,
   chunk_stream |-> "pending"]

\* bytes the other side has written and e has not read yet
Available(e) == Len(written[Other(e)]) - nread[e]

\* the next n bytes e reads
Take(e, n) == SubSeq(written[Other(e)], nread[e] + 1, nread[e] + n)

\* the join as it would be if it returned as soon as the send half had finished
Joined_0_1_send_only(h) == h.send \notin Send01Labels

\* tokio::try_join!(send_0_1, recv_0_1) has returned Ok: both halves finished
Joined_0_1(h) == h.send \notin Send01Labels /\ h.recv \notin Recv01Labels

\* one await of the future send_0_1
send_0_1(e) ==
  /\ ep[e].result = "running"
  /\ \/ /\ ep[e].send = "write_version"
        /\ written' = [written EXCEPT ![e] = Append(@, 3)]
        /\ ep' = [ep EXCEPT ![e].send = "write_timestamp"]
     \/ /\ ep[e].send = "write_timestamp"
        /\ \E now \in ClockValues :
             /\ written' = [written EXCEPT ![e] = @ \o BeBytes(now)]
             /\ ep' = [ep EXCEPT ![e].send = "write_random", ![e].our_timestamp = now]
     \/ /\ ep[e].send = "write_random"
        /\ written' = [written EXCEPT ![e] = @ \o RANDOM_BYTES]
        /\ ep' = [ep EXCEPT ![e].send = "flush_0_1"]
     \/ /\ ep[e].send = "flush_0_1"
        /\ written' = written
        /\ ep' = [ep EXCEPT ![e].send = "write_their_timestamp"]
  /\ UNCHANGED <<overflow_checks, io_vars, codec_vars, engine_vars, nread, peer>>

\* a peer's version byte passes whatever it is
version_unchecked(requested_version) == FALSE

\* if requested_version != 3
version_rejected(requested_version) == requested_version # 3

\* one await of the future recv_0_1
recv_0_1(e) ==
  /\ ep[e].result = "running"
  /\ \/ /\ ep[e].recv = "read_version"
        /\ Available(e) >= 1
        /\ LET requested_version == Take(e, 1)[1]
           IN  ep' = IF version_rejected(requested_version)
                     THEN [ep EXCEPT ![e].result = "err_version"]
                     ELSE [ep EXCEPT ![e].recv = "read_zero"]
        /\ nread' = [nread EXCEPT ![e] = @ + 1]
     \/ /\ ep[e].recv = "read_zero"
        /\ Available(e) >= 4
        /\ LET zero == FromBeBytes(Take(e, 4))
           IN  ep' = IF zero # U32_ZERO
                     THEN [ep EXCEPT ![e].result = "err_zero"]
                     ELSE [ep EXCEPT ![e].recv = "read_peer_timestamp"]
        /\ nread' = [nread EXCEPT ![e] = @ + 4]
     \/ /\ ep[e].recv = "read_peer_timestamp"
        /\ Available(e) >= 4
        /\ ep' = [ep EXCEPT ![e].their_timestamp = FromBeBytes(Take(e, 4)),
                            ![e].recv = "read_random"]
        /\ nread' = [nread EXCEPT ![e] = @ + 4]
     \/ /\ ep[e].recv = "read_random"
        /\ Available(e) >= RANDOM_LEN
        /\ \E now \in ClockValues :
             ep' = [ep EXCEPT ![e].their_random_bytes = Take(e, RANDOM_LEN),
                              ![e].received_at = now,
                              ![e].recv = "read_timestamp_echo"]
        /\ nread' = [nread EXCEPT ![e] = @ + RANDOM_LEN]
  /\ UNCHANGED <<overflow_checks, io_vars, codec_vars, engine_vars, written, peer>>

\* one await of the future send_2
send_2(e) ==
  /\ ep[e].result = "running"
  /\ Joined_0_1(ep[e])
  /\ \/ /\ ep[e].send = "write_their_timestamp"
        /\ written' = [written EXCEPT ![e] = @ \o BeBytes(ep[e].their_timestamp)]
        /\ ep' = [ep EXCEPT ![e].send = "write_received_at"]
     \/ /\ ep[e].send = "write_received_at"
        /\ written' = [written EXCEPT ![e] = @ \o BeBytes(ep[e].received_at)]
        /\ ep' = [ep EXCEPT ![e].send = "write_echo"]
     \/ /\ ep[e].send = "write_echo"
        /\ written' = [written EXCEPT ![e] = @ \o ep[e].their_random_bytes]
        /\ ep' = [ep EXCEPT ![e].send = "flush_2"]
     \/ /\ ep[e].send = "flush_2"
        /\ written' = written
        /\ ep' = [ep EXCEPT ![e].send = "done"]
  /\ UNCHANGED <<overflow_checks, io_vars, codec_vars, engine_vars, nread, peer>>

\* an echo of the timestamp passes whatever it is
timestamp_echo_unchecked(our_timestamp_echo, our_timestamp) == FALSE

\* if our_timestamp_echo != our_timestamp
timestamp_echo_rejected(our_timestamp_echo, our_timestamp) ==
  our_timestamp_echo # our_timestamp

\* if &random_echo != RANDOM_BYTES
random_echo_rejected(random_echo) == random_echo # RANDOM_BYTES

\* one await of the future recv_2
recv_2(e) ==
  /\ ep[e].result = "running"
  /\ Joined_0_1(ep[e])
  /\ \/ /\ ep[e].recv = "read_timestamp_echo"
        /\ Available(e) >= 4
        /\ LET our_timestamp_echo == FromBeBytes(Take(e, 4))
           IN  ep' = IF timestamp_echo_rejected(our_timestamp_echo, ep[e].our_timestamp)
                     THEN [ep EXCEPT ![e].result = "err_timestamp_echo"]
                     ELSE [ep EXCEPT ![e].recv = "read_they_received_at"]
        /\ nread' = [nread EXCEPT ![e] = @ + 4]
     \/ /\ ep[e].recv = "read_they_received_at"
        /\ Available(e) >= 4
        /\ ep' = [ep EXCEPT ![e].they_received_at = FromBeBytes(Take(e, 4)),
                            ![e].recv = "read_random_echo"]
        /\ nread' = [nread EXCEPT ![e] = @ + 4]
     \/ /\ ep[e].recv = "read_random_echo"
        /\ Available(e) >= RANDOM_LEN
        /\ LET random_echo == Take(e, RANDOM_LEN)
           IN  ep' = IF random_echo_rejected(random_echo)
                     THEN [ep EXCEPT ![e].result = "err_random_echo"]
                     ELSE [ep EXCEPT ![e].recv = "done"]
        /\ nread' = [nread EXCEPT ![e] = @ + RANDOM_LEN]
  /\ UNCHANGED <<overflow_checks, io_vars, codec_vars, engine_vars, written, peer>>

\* Ok(they_received_at - their_timestamp): the subtraction panics on overflow
\* in a build with overflow checks and wraps in one without
handshake_return(e) ==
  /\ ep[e].result = "running"
  /\ ep[e].send = "done"
  /\ ep[e].recv = "done"
  /\ ep' = IF overflow_checks /\ U32Lt(ep[e].they_received_at, ep[e].their_timestamp)
           THEN [ep EXCEPT ![e].result = "panic"]
           ELSE [ep EXCEPT ![e].result = "ok",
                           ![e].latency = WrappingSub(ep[e].they_received_at,
                                                      ep[e].their_timestamp)]
  /\ UNCHANGED <<overflow_checks, io_vars, codec_vars, engine_vars, written, nread, peer>>

\* handshake(): the two try_join!s of its four futures, then the return
handshake(e) ==
  \/ send_0_1(e)
  \/ recv_0_1(e)
  \/ send_2(e)
  \/ recv_2(e)
  \/ handshake_return(e)

\* a ChunkStream is built whatever handshake() returned
handshake_result_ignored(result) == TRUE

\* handshake(&mut stream, &clock).await? lets only Ok through
handshake_succeeded(result) == result = "ok"

\* ChunkStream::new_with_clock once handshake() has returned: the error is
\* returned by ?, a panic unwinds, and otherwise the stream is split and the
\* ChunkStream is built around it
new_with_clock_return(e) ==
  /\ ep[e].result # "running"
  /\ ep[e].chunk_stream = "pending"
  /\ ep' = [ep EXCEPT ![e].chunk_stream =
                        IF ep[e].result = "panic" THEN "panic"
                        ELSE IF handshake_succeeded(ep[e].result) THEN "ChunkStream"
                        ELSE "Err"]
  /\ UNCHANGED <<overflow_checks, io_vars, codec_vars, engine_vars, written, nread, peer>>

\* ChunkStream::new_with_clock: the handshake, then the return
new_with_clock(e) ==
  \/ handshake(e)
  \/ new_with_clock_return(e)

----------------------------------------------------------------------------
(* The peer of the handshake claims: it sends S0, S1 and S2 as scripted. *)

\* the first 4-byte field of S1 (the peer's timestamp)
PeerTsValues == {U32_ZERO, U32(0, 2), U32_MAX}

\* a peer that follows the protocol
ConformingPeers ==
  [version : {3}, their_ts : PeerTsValues, zero : {U32_ZERO},
   echo_timestamp : {TRUE}, echo_random : {TRUE},
   they_received_at : {U32(0, 2), U32_MAX}, sent : {0}]

\* peers that break it in one place
DeviatingPeers ==
  [version : {4}, their_ts : {U32_ZERO, U32(0, 2)}, zero : {U32_ZERO},
   echo_timestamp : {TRUE}, echo_random : {TRUE},
   they_received_at : {U32(0, 2)}, sent : {0}]
  \cup
  [version : {3}, their_ts : {U32_ZERO, U32(0, 2)}, zero : {U32(0, 5)},
   echo_timestamp : {TRUE}, echo_random : {TRUE},
   they_received_at : {U32(0, 2), U32(0, 7)}, sent : {0}]
  \cup
  [version : {3}, their_ts : {U32_ZERO}, zero : {U32_ZERO},
   echo_timestamp : {TRUE, FALSE}, echo_random : {TRUE, FALSE},
   they_received_at : {U32(0, 2)}, sent : {0}]

PeerScripts == ConformingPeers \cup DeviatingPeers

IsConforming(p) ==
  /\ p.version = 3
  /\ p.zero = U32_ZERO
  /\ p.echo_timestamp
  /\ p.echo_random

\* S2 as the peer sends it: the echo of our timestamp, its receive time, the
\* echo of our random block
PeerS2 ==
  BeBytes(IF peer.echo_timestamp
          THEN ep["local"].our_timestamp
          ELSE WrappingAdd(ep["local"].our_timestamp, U32(0, 1)))
  \o BeBytes(peer.they_received_at)
  \o (IF peer.echo_random
      THEN RANDOM_BYTES
      ELSE [RANDOM_BYTES EXCEPT ![RANDOM_LEN] = (@ + 1) % 256])

peer_send ==
  /\ \/ /\ peer.sent = 0
        /\ written' = [written EXCEPT !["peer"] = Append(@, peer.version)]
     \/ /\ peer.sent = 1
        /\ written' = [written EXCEPT !["peer"] =
                         @ \o BeBytes(peer.their_ts) \o BeBytes(peer.zero) \o PEER_RANDOM]
     \/ /\ peer.sent = 2
        /\ ep["local"].send \notin Send01Labels
        /\ written' = [written EXCEPT !["peer"] = @ \o PeerS2]
  /\ peer' = [peer EXCEPT !.sent = @ + 1]
  /\ UNCHANGED <<overflow_checks, io_vars, codec_vars, engine_vars, ep, nread>>

----------------------------------------------------------------------------
(* Results and options *)

Ok(v) == [kind |-> "ok", value |-> v]

Err(e) == [kind |-> "err", error |-> e]

\* a panic: the program aborts
Panic == [kind |-> "panic"]

None == <<>>

Some(x) == <<x>>

----------------------------------------------------------------------------
(* Byte forms of the header fields *)

\* the escape value 0xFFFFFF of a 3-byte timestamp field
ESCAPE == U32(255, 65535)

\* deku, bytes = 3, big-endian: the low three bytes
Be3(x) == <<x[1] % 256, x[2] \div 256, x[2] % 256>>

FromBe3(b) == U32(b[1], b[2] * 256 + b[3])

\* deku, endian = little
LeBytes(x) == <<x[2] % 256, x[2] \div 256, x[1] % 256, x[1] \div 256>>

\* the four bytes read with the first as the most significant
FromLeBytes_big_endian(b) == U32(b[1] * 256 + b[2], b[3] * 256 + b[4])

FromLeBytes(b) == U32(b[4] * 256 + b[3], b[2] * 256 + b[1])

\* the bytes of input after its first n
Drop(input, n) == SubSeq(input, n + 1, Len(input))

----------------------------------------------------------------------------
(* BasicHeader: src/src/chunk/header/basic.rs *)

\* impl DekuWrite for ChunkStreamId: the bytes whose first two bits are then
\* skipped.  remainder - 64 is a u32 subtraction: below 64 it panics in a build
\* with overflow checks and wraps in one without; both casts "as u8" truncate.
ChunkStreamId_write(csid) ==
  IF csid >= 2 /\ csid <= 63 THEN Ok(<<csid>>)
  ELSE IF csid >= 64 /\ csid <= 319 THEN Ok(<<0, csid - 64>>)
  ELSE IF csid >= 320 /\ csid <= 65599 THEN
    LET remainder   == csid % 256
        third_byte  == ((csid - remainder) \div 256) % 256
        second_byte == (remainder - 64 + 256) % 256
    IN  IF remainder < 64 /\ overflow_checks
        THEN Panic
        ELSE Ok(<<1, second_byte, third_byte>>)
  ELSE IF csid = 0 \/ csid = 1 THEN Err("ReservedCsid")
  ELSE Err("CsidTooLarge")

\* derive(DekuWrite) for BasicHeader: two bits of chunk type, then the chunk
\* stream id's bits from the third on.  The fields are written to output in
\* order, so when ChunkStreamId::write returns an error the two bits of the
\* chunk type are in output already.
BasicHeader_write(basic_header) ==
  LET id == ChunkStreamId_write(basic_header.chunk_stream_id)
  IN  IF id.kind = "err"
      THEN [kind |-> "err", error |-> id.error, appended_bits |-> 2]
      ELSE IF id.kind # "ok" THEN id
      ELSE Ok(<<basic_header.chunk_type * 64 + (id.value[1] % 64)>> \o Tail(id.value))

\* input.leading_zeros() of the bits after the chunk type: it counts zeros of
\* the whole rest of the input, not of the six id bits alone.  The result is
\* capped at 7, which stands for every count above 6.
leading_zeros(input) ==
  LET six == input[1] % 64
  IN  IF six >= 32 THEN 0
      ELSE IF six >= 16 THEN 1
      ELSE IF six >= 8 THEN 2
      ELSE IF six >= 4 THEN 3
      ELSE IF six >= 2 THEN 4
      ELSE IF six = 1 THEN 5
      ELSE IF Len(input) = 1 \/ input[2] >= 128 THEN 6
      ELSE 7

\* impl DekuRead for ChunkStreamId, on the input that starts with the byte
\* holding the chunk type: the id and the bytes of input used
ChunkStreamId_read(input) ==
  LET zeros == leading_zeros(input)
  IN  IF zeros = 6 THEN
        IF Len(input) < 2 THEN Err("Incomplete")
        ELSE Ok([chunk_stream_id |-> input[2] + 64, consumed |-> 2])
      ELSE IF zeros = 5 THEN
        IF Len(input) < 3 THEN Err("Incomplete")
        ELSE Ok([chunk_stream_id |-> input[3] * 256 + input[2] + 64, consumed |-> 3])
      ELSE Ok([chunk_stream_id |-> input[1] % 64, consumed |-> 1])

\* derive(DekuRead) for BasicHeader
BasicHeader_read(input) ==
  IF Len(input) < 1 THEN Err("Incomplete")
  ELSE LET id == ChunkStreamId_read(input)
       IN  IF id.kind # "ok" THEN id
           ELSE Ok([basic_header |-> [chunk_type |-> input[1] \div 64,
                                      chunk_stream_id |-> id.value.chunk_stream_id],
                    consumed |-> id.value.consumed])

\* BasicHeader::begin_or_rewind_stream and the other three constructors: the
\* chunk stream id is checked, 0 and 1 are reserved and 65599 is the largest
BasicHeader_new(chunk_type, chunk_stream_id) ==
  IF chunk_stream_id = 0 \/ chunk_stream_id = 1 THEN Err("ReservedCsid")
  ELSE IF chunk_stream_id > 65599 THEN Err("CsidTooLarge")
  ELSE Ok([chunk_type |-> chunk_type, chunk_stream_id |-> chunk_stream_id])

\* BasicHeader::size
BasicHeader_size(basic_header) ==
  IF basic_header.chunk_stream_id <= 63 THEN 1
  ELSE IF basic_header.chunk_stream_id <= 319 THEN 2
  ELSE 3

----------------------------------------------------------------------------
(* MessageHeader: src/src/chunk/header/message.rs *)

\* the variant of each chunk type, as src/src/chunk/header/mod.rs names them
Variant(chunk_type) ==
  CASE chunk_type = 0 -> "BeginOrRewindStream"
    [] chunk_type = 1 -> "BeginVariableLengthMessage"
    [] chunk_type = 2 -> "BeginConstantLengthMessage"
    [] chunk_type = 3 -> "ContinueMessage"

\* derive(DekuRead) for MessageHeader, ctx = the chunk type
MessageHeader_read(input, chunk_type) ==
  CASE chunk_type = 0 ->
         IF Len(input) < 11 THEN Err("Incomplete")
         ELSE Ok([message_header |->
                    [variant |-> Variant(0),
                     timestamp |-> FromBe3(SubSeq(input, 1, 3)),
                     message_length |-> FromBe3(SubSeq(input, 4, 6)),
                     message_type_id |-> input[7],
                     message_stream_id |-> FromLeBytes(SubSeq(input, 8, 11))],
                  consumed |-> 11])
    [] chunk_type = 1 ->
         IF Len(input) < 7 THEN Err("Incomplete")
         ELSE Ok([message_header |->
                    [variant |-> Variant(1),
                     timestamp_delta |-> FromBe3(SubSeq(input, 1, 3)),
                     message_length |-> FromBe3(SubSeq(input, 4, 6)),
                     message_type_id |-> input[7]],
                  consumed |-> 7])
    [] chunk_type = 2 ->
         IF Len(input) < 3 THEN Err("Incomplete")
         ELSE Ok([message_header |->
                    [variant |-> Variant(2),
                     timestamp_delta |-> FromBe3(SubSeq(input, 1, 3))],
                  consumed |-> 3])
    [] chunk_type = 3 ->
         Ok([message_header |-> [variant |-> Variant(3)], consumed |-> 0])

\* derive(DekuWrite) for MessageHeader; a value that does not fit its three
\* bytes is an error
MessageHeader_write(message_header) ==
  LET fits(x) == x[1] < 256
  IN  CASE message_header.variant = Variant(0) ->
             IF fits(message_header.timestamp) /\ fits(message_header.message_length)
             THEN Ok(Be3(message_header.timestamp)
                     \o Be3(message_header.message_length)
                     \o <<message_header.message_type_id>>
                     \o LeBytes(message_header.message_stream_id))
             ELSE Err("InvalidParam")
        [] message_header.variant = Variant(1) ->
             IF fits(message_header.timestamp_delta) /\ fits(message_header.message_length)
             THEN Ok(Be3(message_header.timestamp_delta)
                     \o Be3(message_header.message_length)
                     \o <<message_header.message_type_id>>)
             ELSE Err("InvalidParam")
        [] message_header.variant = Variant(2) ->
             IF fits(message_header.timestamp_delta)
             THEN Ok(Be3(message_header.timestamp_delta))
             ELSE Err("InvalidParam")
        [] message_header.variant = Variant(3) -> Ok(<<>>)

\* MessageHeader::has_extended_timestamp: the caller's last_timestamp plays no
\* part, a type-3 header never has one
has_extended_timestamp(message_header, last_timestamp) ==
  CASE message_header.variant = Variant(0) -> message_header.timestamp = ESCAPE
    [] message_header.variant = Variant(1) -> message_header.timestamp_delta = ESCAPE
    [] message_header.variant = Variant(2) -> message_header.timestamp_delta = ESCAPE
    [] message_header.variant = Variant(3) -> FALSE

\* MessageHeader::size
MessageHeader_size(message_header) ==
  CASE message_header.variant = Variant(0) -> 11
    [] message_header.variant = Variant(1) -> 7
    [] message_header.variant = Variant(2) -> 3
    [] message_header.variant = Variant(3) -> 0

----------------------------------------------------------------------------
(* Header: src/src/chunk/header/mod.rs *)

\* ctx.get(&chunk_stream_id).map(|info| info.last_timestamp).unwrap_or_default()
last_timestamp_or_default(ctx, chunk_stream_id) ==
  IF chunk_stream_id \in DOMAIN ctx THEN ctx[chunk_stream_id].last_timestamp ELSE U32_ZERO

\* impl DekuRead for Header: the header and the bytes of input used
Header_read(input, ctx) ==
  LET basic == BasicHeader_read(input)
  IN  IF basic.kind # "ok" THEN basic
      ELSE
        LET basic_header == basic.value.basic_header
            after_basic  == Drop(input, basic.value.consumed)
            message      == MessageHeader_read(after_basic, basic_header.chunk_type)
        IN  IF message.kind # "ok" THEN message
            ELSE
              LET message_header == message.value.message_header
                  after_message  == Drop(after_basic, message.value.consumed)
                  last_timestamp ==
                    last_timestamp_or_default(ctx, basic_header.chunk_stream_id)
                  used == basic.value.consumed + message.value.consumed
              IN  IF has_extended_timestamp(message_header, last_timestamp)
                  THEN IF Len(after_message) < 4 THEN Err("Incomplete")
                       ELSE Ok([header |->
                                  [basic_header |-> basic_header,
                                   message_header |-> message_header,
                                   extended_timestamp |->
                                     Some(FromBeBytes(SubSeq(after_message, 1, 4)))],
                                consumed |-> used + 4])
                  ELSE Ok([header |->
                             [basic_header |-> basic_header,
                              message_header |-> message_header,
                              extended_timestamp |-> None],
                           consumed |-> used])

\* impl DekuWrite for Header: the bytes appended to the output
Header_write(header) ==
  LET basic == BasicHeader_write(header.basic_header)
  IN  IF basic.kind # "ok" THEN basic
      ELSE
        LET message == MessageHeader_write(header.message_header)
        IN  IF message.kind # "ok" THEN message
            ELSE Ok(basic.value \o message.value
                    \o (IF header.extended_timestamp = None THEN <<>>
                        ELSE BeBytes(header.extended_timestamp[1])))

\* Header::size
Header_size(header) ==
  BasicHeader_size(header.basic_header)
  + MessageHeader_size(header.message_header)
  + (IF header.extended_timestamp # None THEN 4 ELSE 0)

\* Header::timestamp: the message header's own field, or for a type-3 header
\* the chunk stream's last_timestamp; it panics without a chunk stream entry
Header_timestamp(header, map) ==
  CASE header.message_header.variant = Variant(0) ->
         Ok([kind |-> "Absolute", inner |-> header.message_header.timestamp])
    [] header.message_header.variant \in {Variant(1), Variant(2)} ->
         Ok([kind |-> "Delta", inner |-> header.message_header.timestamp_delta])
    [] header.message_header.variant = Variant(3) ->
         IF header.basic_header.chunk_stream_id \in DOMAIN map
         THEN Ok([kind |-> "Delta",
                  inner |-> map[header.basic_header.chunk_stream_id].last_timestamp])
         ELSE Panic

\* the split of a timestamp or delta into the 3-byte field and the extension
escape_field(timestamp) == IF ~U32Lt(timestamp, ESCAPE) THEN ESCAPE ELSE timestamp

\* the extended timestamp as it would be if only values above 0xFFFFFF had one
escape_extended_above(timestamp) == IF U32Lt(ESCAPE, timestamp) THEN Some(timestamp) ELSE None

escape_extended(timestamp) == IF ~U32Lt(timestamp, ESCAPE) THEN Some(timestamp) ELSE None

\* a message length is refused from 0xFFFFFF on
message_too_long_from_escape(message_length) == ~U32Lt(message_length, ESCAPE)

\* if message_length > 0xFFFFFF
message_too_long(message_length) == U32Lt(ESCAPE, message_length)

\* Header::begin_or_rewind_stream
begin_or_rewind_stream(chunk_stream_id, timestamp, message_length, message_type_id, message_stream_id) ==
  IF message_too_long(message_length) THEN Err("MessageTooLong")
  ELSE
    LET basic_header == BasicHeader_new(0, chunk_stream_id)
    IN  IF basic_header.kind # "ok" THEN basic_header
        ELSE Ok([basic_header |-> basic_header.value,
                 message_header |->
                   [variant |-> Variant(0),
                    timestamp |-> escape_field(timestamp),
                    message_length |-> message_length,
                    message_type_id |-> message_type_id,
                    message_stream_id |-> message_stream_id],
                 extended_timestamp |-> escape_extended(timestamp)])

\* Header::begin_variable_length_message
begin_variable_length_message(chunk_stream_id, timestamp_delta, message_length, message_type_id) ==
  IF message_too_long(message_length) THEN Err("MessageTooLong")
  ELSE
    LET basic_header == BasicHeader_new(1, chunk_stream_id)
    IN  IF basic_header.kind # "ok" THEN basic_header
        ELSE Ok([basic_header |-> basic_header.value,
                 message_header |->
                   [variant |-> Variant(1),
                    timestamp_delta |-> escape_field(timestamp_delta),
                    message_length |-> message_length,
                    message_type_id |-> message_type_id],
                 extended_timestamp |-> escape_extended(timestamp_delta)])

\* Header::begin_constant_length_message
begin_constant_length_message(chunk_stream_id, timestamp_delta) ==
  LET basic_header == BasicHeader_new(2, chunk_stream_id)
  IN  IF basic_header.kind # "ok" THEN basic_header
      ELSE Ok([basic_header |-> basic_header.value,
               message_header |->
                 [variant |-> Variant(2),
                  timestamp_delta |-> escape_field(timestamp_delta)],
               extended_timestamp |-> escape_extended(timestamp_delta)])

\* Header::continue_message
continue_message(chunk_stream_id) ==
  LET basic_header == BasicHeader_new(3, chunk_stream_id)
  IN  IF basic_header.kind # "ok" THEN basic_header
      ELSE Ok([basic_header |-> basic_header.value,
               message_header |-> [variant |-> Variant(3)],
               extended_timestamp |-> None])

----------------------------------------------------------------------------
(* Chunk headers written to and read from a chunk stream *)

\* how many headers one behaviour writes
MaxHeaders == 2

\* the values the constructors are called with
CsidValues == {3, 64, 512}

TimestampValues == {U32(0, 1000), ESCAPE, U32(256, 0)}

MessageLengthValues == {U32(0, 200), ESCAPE, U32(256, 0)}

MessageTypeIdValues == {8}

MessageStreamIdValues == {U32(1, 2)}

\* chunk data that follows a header on the wire
Payload == <<170, 85>>

NoTx == [from |-> "none"]

NoRx == [from |-> "none"]

\* the state a chunk stream has after a header, as the inbound state machine
\* keeps it: the escape is in effect after a type-0/1/2 header that used it
ChunkStreamState_update(ctx, header) ==
  LET id      == header.basic_header.chunk_stream_id
      variant == header.message_header.variant
      field   == IF variant = Variant(0) THEN header.message_header.timestamp
                 ELSE header.message_header.timestamp_delta
      value   == IF header.extended_timestamp # None
                 THEN header.extended_timestamp[1] ELSE field
      entry   ==
        IF variant = Variant(0)
        THEN [last_timestamp |-> value, last_delta |-> U32_ZERO,
              has_extended_timestamp_in_effect |-> field = ESCAPE,
              extended_timestamp |-> value]
        ELSE [last_timestamp |-> WrappingAdd(ctx[id].last_timestamp, value),
              last_delta |-> value,
              has_extended_timestamp_in_effect |-> field = ESCAPE,
              extended_timestamp |-> value]
  IN  IF variant = Variant(3) \/ (variant # Variant(0) /\ id \notin DOMAIN ctx)
      THEN ctx
      ELSE [k \in DOMAIN ctx \cup {id} |-> IF k = id THEN entry ELSE ctx[k]]

\* a header has been built (or refused): it is encoded and put on the wire
put_header(call, args, built) ==
  LET bytes == IF built.kind = "ok" THEN Header_write(built.value) ELSE built
      encoded  == built.kind = "ok" /\ bytes.kind = "ok"
  IN  /\ tx' = [from |-> "local", call |-> call, args |-> args,
                built |-> built, bytes |-> bytes]
      /\ wire' = IF encoded THEN bytes.value \o Payload ELSE <<>>
      /\ outgoing' =
           IF encoded /\ call # "continue_message"
           THEN LET id == built.value.basic_header.chunk_stream_id
                IN  [k \in DOMAIN outgoing \cup {id} |->
                       IF k = id THEN built.value ELSE outgoing[k]]
           ELSE outgoing
      /\ nheaders' = nheaders + 1

\* the outbound side builds a chunk header with one of the four constructors
write_header ==
  /\ nheaders < MaxHeaders
  /\ wire = <<>>
  /\ \E id \in CsidValues :
       \/ \E timestamp \in TimestampValues, message_length \in MessageLengthValues,
             message_type_id \in MessageTypeIdValues,
             message_stream_id \in MessageStreamIdValues :
            put_header("begin_or_rewind_stream",
                       [timestamp |-> timestamp, message_length |-> message_length],
                       begin_or_rewind_stream(id, timestamp, message_length,
                                              message_type_id, message_stream_id))
       \/ \E timestamp_delta \in TimestampValues,
             message_length \in MessageLengthValues,
             message_type_id \in MessageTypeIdValues :
            put_header("begin_variable_length_message",
                       [timestamp |-> timestamp_delta, message_length |-> message_length],
                       begin_variable_length_message(id, timestamp_delta,
                                                     message_length, message_type_id))
       \/ \E timestamp_delta \in TimestampValues :
            put_header("begin_constant_length_message", [timestamp |-> timestamp_delta],
                       begin_constant_length_message(id, timestamp_delta))
       \/ put_header("continue_message", [timestamp |-> None], continue_message(id))
  /\ UNCHANGED <<overflow_checks, io_vars, hs_vars, engine_vars, incoming, rx>>

\* a sender that follows the protocol continues a message on a chunk stream
\* the receiver has state for: a type-3 basic header, then the extended
\* timestamp again if the chunk stream's last type-0/1/2 header had one
peer_continue ==
  /\ nheaders < MaxHeaders
  /\ wire = <<>>
  /\ \E id \in DOMAIN incoming :
       LET basic == BasicHeader_write([chunk_type |-> 3, chunk_stream_id |-> id])
           suffix == IF incoming[id].has_extended_timestamp_in_effect
                     THEN BeBytes(incoming[id].extended_timestamp) ELSE <<>>
       IN  /\ basic.kind = "ok"
           /\ tx' = [from |-> "peer", call |-> "continue_message",
                     bytes |-> Ok(basic.value \o suffix)]
           /\ wire' = basic.value \o suffix \o Payload
  /\ nheaders' = nheaders + 1
  /\ UNCHANGED <<overflow_checks, io_vars, hs_vars, engine_vars, incoming, outgoing, rx>>

\* the inbound side decodes the header at the front of the wire against the
\* chunk stream map and asks it for its timestamp
read_header ==
  /\ wire # <<>>
  /\ LET result == Header_read(wire, incoming)
     IN  /\ rx' = [from |-> tx.from, sent |-> tx, input |-> wire, result |-> result,
                   prior |-> IF result.kind = "ok"
                                /\ result.value.header.basic_header.chunk_stream_id
                                     \in DOMAIN incoming
                             THEN Some(incoming[result.value.header.basic_header
                                                  .chunk_stream_id])
                             ELSE None,
                   timestamp |-> IF result.kind = "ok"
                                 THEN Header_timestamp(result.value.header, incoming)
                                 ELSE result]
         /\ incoming' = IF result.kind = "ok"
                        THEN ChunkStreamState_update(incoming, result.value.header)
                        ELSE incoming
  /\ wire' = <<>>
  /\ UNCHANGED <<overflow_checks, io_vars, hs_vars, engine_vars, outgoing, tx, nheaders>>

----------------------------------------------------------------------------
(* Basic headers written and read back on their own *)

\* chunk stream ids at the edges of the one-, two- and three-byte forms, and
\* the ids no form holds
BasicCsidValues ==
  {0, 1, 2, 63, 64, 127, 128, 191, 192, 319, 320, 511, 512, 575, 576,
   65535, 65536, 65599, 65600}

\* a basic header is encoded and put on the wire
basic_write ==
  /\ wire = <<>>
  /\ \E chunk_type \in 0..3, id \in BasicCsidValues :
       LET basic_header == [chunk_type |-> chunk_type, chunk_stream_id |-> id]
           bytes == BasicHeader_write(basic_header)
       IN  /\ tx' = [from |-> "basic", basic_header |-> basic_header, bytes |-> bytes]
           /\ wire' = IF bytes.kind = "ok" THEN bytes.value \o Payload ELSE <<>>
  /\ rx' = NoRx
  /\ UNCHANGED <<overflow_checks, io_vars, hs_vars, engine_vars, incoming, outgoing, nheaders>>

\* first, second and third bytes a peer may put on the wire
FirstByteValues == {0, 1, 2, 63, 64, 65, 130, 192, 193, 255}

SecondByteValues == {0, 127, 128, 255}

ThirdByteValues == {0, 1, 255}

\* bytes arrive from a peer: a basic header and what follows it
basic_input ==
  /\ wire = <<>>
  /\ \E first \in FirstByteValues, second \in SecondByteValues, third \in ThirdByteValues :
       /\ tx' = [from |-> "raw", bytes |-> Ok(<<first, second, third>>)]
       /\ wire' = <<first, second, third>>
  /\ rx' = NoRx
  /\ UNCHANGED <<overflow_checks, io_vars, hs_vars, engine_vars, incoming, outgoing, nheaders>>

\* the basic header at the front of the wire is decoded
basic_read ==
  /\ wire # <<>>
  /\ rx' = [from |-> tx.from, sent |-> tx, input |-> wire,
            result |-> BasicHeader_read(wire)]
  /\ wire' = <<>>
  /\ UNCHANGED <<overflow_checks, io_vars, hs_vars, engine_vars, incoming, outgoing, tx, nheaders>>

----------------------------------------------------------------------------
(* The chunk stream engine: messages framed into chunks and reassembled *)

\* max_chunk_size of a direction until a SetChunkSize changes it
DEFAULT_CHUNK_SIZE == 128

\* how many messages one behaviour sends
MaxMessages == 2

\* the messages send() is called with
EngineCsidValues == {5, 64}

EngineTimestampValues == {U32(0, 1000), U32(0, 1040), U32(256, 0)}

PayloadLengths == {72, 200, 300}

PayloadOf(n) == [i \in 1..n |-> i % 256]

Messages ==
  [type_id : {8}, stream_id : {U32(0, 1)}, timestamp : EngineTimestampValues,
   payload : {PayloadOf(n) : n \in PayloadLengths}]

\* a length below 2^24 as a number, and back
ToInt(x) == x[1] * 65536 + x[2]

ToU32(n) == U32(n \div 65536, n % 65536)

Min(a, b) == IF a < b THEN a ELSE b

\* the payload cut into chunks of at most size bytes, the last one short
Partition(payload, size) ==
  [i \in 1..((Len(payload) + size - 1) \div size) |->
     SubSeq(payload, (i - 1) * size + 1, Min(i * size, Len(payload)))]

\* the first chunk's header: the most compressed type the outbound state of
\* the chunk stream allows
first_header(state, id, message) ==
  LET length == ToU32(Len(message.payload))
  IN  IF \/ id \notin DOMAIN state
         \/ U32Lt(message.timestamp, state[id].last_timestamp)
         \/ message.stream_id # state[id].message_stream_id
      THEN begin_or_rewind_stream(id, message.timestamp, length, message.type_id,
                                  message.stream_id)
      ELSE
        LET delta == WrappingSub(message.timestamp, state[id].last_timestamp)
        IN  IF \/ length # state[id].message_length
               \/ message.type_id # state[id].message_type_id
            THEN begin_variable_length_message(id, delta, length, message.type_id)
            ELSE IF state[id].last_delta # Some(delta)
            THEN begin_constant_length_message(id, delta)
            ELSE continue_message(id)

\* the bytes of the chunks after the first: a type-3 header before each, and
\* every chunk but the last is size bytes long
continuation_bytes(continuation, chunks, size) ==
  LET block == Len(continuation) + size
      total == IF chunks = <<>> THEN 0
               ELSE (Len(chunks) - 1) * block
                    + Len(continuation) + Len(chunks[Len(chunks)])
  IN  [p \in 1..total |->
         LET at == ((p - 1) % block) + 1
         IN  IF at <= Len(continuation) THEN continuation[at]
             ELSE chunks[((p - 1) \div block) + 1][at - Len(continuation)]]

\* send(message): the message is cut into chunks, the first under the header
\* first_header chooses and the others under a type-3 header, and the chunks
\* are written to the transport
send_message ==
  /\ engine = "running"
  /\ Len(sent) < MaxMessages
  /\ \E id \in EngineCsidValues, message \in Messages :
       LET built  == first_header(outgoing, id, message)
           first  == IF built.kind = "ok" THEN Header_write(built.value) ELSE built
           next   == continue_message(id)
           rest   == IF next.kind = "ok" THEN Header_write(next.value) ELSE next
           chunks == Partition(message.payload, DEFAULT_CHUNK_SIZE)
       IN  IF first.kind = "ok" /\ rest.kind = "ok"
           THEN /\ wire' = wire \o first.value \o Head(chunks)
                             \o continuation_bytes(rest.value, Tail(chunks), DEFAULT_CHUNK_SIZE)
                /\ outgoing' =
                     [k \in DOMAIN outgoing \cup {id} |->
                        IF k = id
                        THEN [last_timestamp |-> message.timestamp,
                              last_delta |->
                                IF built.value.basic_header.chunk_type = 0 THEN None
                                ELSE Some(WrappingSub(message.timestamp,
                                                      outgoing[id].last_timestamp)),
                              message_length |-> ToU32(Len(message.payload)),
                              message_type_id |-> message.type_id,
                              message_stream_id |-> message.stream_id]
                        ELSE outgoing[k]]
                /\ sent' = Append(sent, message)
                /\ engine' = engine
           ELSE /\ engine' = IF first.kind = "panic" \/ rest.kind = "panic"
                             THEN "panic" ELSE "send_error"
                /\ UNCHANGED <<wire, outgoing, sent>>
  /\ UNCHANGED <<overflow_checks, io_vars, hs_vars, incoming, tx, rx, nheaders, received>>

\* info.message_bytes_left_to_read of a chunk stream's entry: the bytes of its
\* message that are not buffered yet
message_bytes_left_to_read(info) == ToInt(info.message_length) - Len(info.payload_buffer)

\* Chunk::read: ctx.get(&header.chunk_stream_id())
\*   .map(|info| info.maximum_chunk_size.min(info.message_bytes_left_to_read))
Chunk_bytes_to_read(chunk_stream_id, ctx) ==
  IF chunk_stream_id \in DOMAIN ctx
  THEN Some(Min(DEFAULT_CHUNK_SIZE, message_bytes_left_to_read(ctx[chunk_stream_id])))
  ELSE None

\* the payload of a chunk whose header has been decoded: the rest of the
\* message up to the chunk size is taken from the transport and buffered, and
\* a complete message is yielded
recv_payload(id, variant, consumed, begins, length, type, stream, time) ==
  LET buffer  == IF begins THEN <<>> ELSE incoming[id].payload_buffer
      to_read == Min(DEFAULT_CHUNK_SIZE, ToInt(length) - Len(buffer))
      done    == Len(buffer) + to_read = ToInt(length)
  IN  /\ Len(wire) >= consumed + to_read
      /\ rx' = [from |-> "Chunk::read", chunk_stream_id |-> id,
                bytes_to_read |-> Chunk_bytes_to_read(id, incoming),
                message_length |-> ToInt(length), buffered |-> Len(buffer)]
      /\ wire' = Drop(wire, consumed + to_read)
      /\ incoming' =
           [k \in DOMAIN incoming \cup {id} |->
              IF k = id
              THEN [last_timestamp |->
                      IF done \/ variant = Variant(0) THEN time
                      ELSE incoming[id].last_timestamp,
                    timestamp |-> time,
                    message_length |-> length,
                    message_type_id |-> type,
                    message_stream_id |-> stream,
                    payload_buffer |->
                      IF done THEN <<>>
                      ELSE buffer \o SubSeq(wire, consumed + 1, consumed + to_read)]
              ELSE incoming[k]]
      /\ received' =
           IF done
           THEN Append(received,
                       [type_id |-> type, stream_id |-> stream, timestamp |-> time,
                        payload |->
                          buffer \o SubSeq(wire, consumed + 1, consumed + to_read)])
           ELSE received
      /\ engine' = engine

\* the fields of the message a decoded header belongs to: those the header
\* carries, the others from the inbound state of its chunk stream; the
\* timestamp comes from Header::timestamp when the chunk begins a message
recv_header(header, id, variant, consumed, begins) ==
  LET stamp == Header_timestamp(header, incoming).value
  IN  recv_payload(id, variant, consumed, begins,
        IF variant \in {Variant(0), Variant(1)}
        THEN header.message_header.message_length
        ELSE incoming[id].message_length,
        IF variant \in {Variant(0), Variant(1)}
        THEN header.message_header.message_type_id
        ELSE incoming[id].message_type_id,
        IF variant = Variant(0)
        THEN header.message_header.message_stream_id
        ELSE incoming[id].message_stream_id,
        IF ~begins THEN incoming[id].timestamp
        ELSE IF stamp.kind = "Absolute" THEN stamp.inner
        ELSE WrappingAdd(incoming[id].last_timestamp, stamp.inner))

\* a header decoded against the inbound map: compression against a chunk
\* stream with no state is a protocol error
recv_decoded(header, id, variant, consumed) ==
  IF variant # Variant(0) /\ id \notin DOMAIN incoming
  THEN /\ engine' = "ProtocolError"
       /\ UNCHANGED <<wire, incoming, received, rx>>
  ELSE recv_header(header, id, variant, consumed,
                   variant # Variant(3) \/ incoming[id].payload_buffer = <<>>)

\* the inbound state machine on one chunk: it waits until the transport holds
\* the whole chunk
recv_chunk ==
  /\ engine = "running"
  /\ wire # <<>>
  /\ LET result == Header_read(wire, incoming)
     IN  /\ result.kind = "ok"
         /\ recv_decoded(result.value.header,
                         result.value.header.basic_header.chunk_stream_id,
                         result.value.header.message_header.variant,
                         result.value.consumed)
  /\ UNCHANGED <<overflow_checks, io_vars, hs_vars, outgoing, tx, nheaders, sent>>

----------------------------------------------------------------------------
(* Header::timestamp against a chunk stream that has seen a type-0 header *)
(* and a delta                                                            *)

HistoryTimestampValues == {U32(0, 1000), U32_MAX}

HistoryDeltaValues == {U32(0, 40), U32(0, 1000), U32(256, 0)}

\* the inbound map after a type-0 header with timestamp t and a type-1 header
\* with delta d on chunk stream 3
HistoryMap(t, d) ==
  ChunkStreamState_update(
    ChunkStreamState_update(<<>>, begin_or_rewind_stream(3, t, U32(0, 200), 8, U32(1, 2)).value),
    begin_variable_length_message(3, d, U32(0, 200), 8).value)

\* the headers of the four types for chunk stream 3
TimestampHeaders ==
  {begin_or_rewind_stream(3, t, U32(0, 200), 8, U32(1, 2)).value : t \in TimestampValues}
  \cup {begin_variable_length_message(3, d, U32(0, 200), 8).value : d \in TimestampValues}
  \cup {begin_constant_length_message(3, d).value : d \in TimestampValues}
  \cup {continue_message(3).value}

\* header.timestamp(&map) for a header of chunk stream 3
header_timestamp ==
  /\ rx.from = "none"
  /\ \E header \in TimestampHeaders :
       rx' = [from |-> "timestamp", sent |-> NoTx, input |-> <<>>,
              result |-> Ok([header |-> header, consumed |-> 0]),
              prior |-> Some(incoming[3]),
              timestamp |-> Header_timestamp(header, incoming)]
  /\ UNCHANGED <<overflow_checks, io_vars, hs_vars, engine_vars, incoming, outgoing, tx, wire, nheaders>>

\* the timestamp a chunk stream arrives at from last_timestamp by what
\* Header::timestamp returned: an absolute one replaces it, a delta is added
EffectiveTimestamp(last_timestamp, timestamp) ==
  IF timestamp.kind = "Absolute" THEN timestamp.inner
  ELSE WrappingAdd(last_timestamp, timestamp.inner)

----------------------------------------------------------------------------
(* The tokio transport: src/src/chunk/impls/tokio.rs *)

\* how often a transport answers WouldBlock within one call
MaxWouldBlock == 2

IoChunkSizes == {4, 128}

IoPayloadLengths == {2, 5}

\* what may follow a chunk on the transport: nothing, or the start of the next
IoTrailing == {<<>>, <<195, 7>>}

\* the first chunk of a message of `length` bytes under a chunk size
IoChunk(length, chunk_size) ==
  [header |-> begin_or_rewind_stream(3, U32(0, 1000), U32(0, length), 8, U32(0, 1)).value,
   data   |-> PayloadOf(Min(length, chunk_size))]

\* chunk.write(&mut bits, chunk_size): the header, then the payload
Chunk_write(chunk, chunk_size) ==
  LET header == Header_write(chunk.header)
  IN  IF header.kind # "ok" THEN header ELSE Ok(header.value \o chunk.data)

\* Chunk::read(&bits, chunk_size): the header, then the payload, which is the
\* message's bytes up to chunk_size; Incomplete when the input ends before
Chunk_read(input, chunk_size) ==
  LET header == Header_read(input, <<>>)
  IN  IF header.kind # "ok" THEN header
      ELSE
        LET rest == Drop(input, header.value.consumed)
            n    == Min(chunk_size, ToInt(header.value.header.message_header.message_length))
        IN  IF Len(rest) < n THEN Err("Incomplete")
            ELSE Ok([rest  |-> Drop(rest, n),
                     chunk |-> [header |-> header.value.header, data |-> SubSeq(rest, 1, n)]])

\* no call has been made on the transport
NoIo == [call |-> "none"]

\* write_chunk before its loop, with the outcome of chunk.write: an error is
\* returned by ?, and otherwise the bytes are buf
write_chunk_encoded(bits) ==
  [call |-> "write_chunk",
   pc |-> IF bits.kind = "ok" THEN "writable" ELSE "returned",
   buf |-> IF bits.kind = "ok" THEN bits.value ELSE <<>>,
   out |-> <<>>,
   would_block |-> 0,
   transport_error |-> FALSE,
   result |-> IF bits.kind = "ok" THEN None ELSE Some(Err("Deku"))]

\* write_chunk up to its loop: the chunk is encoded into buf
write_chunk_call ==
  /\ io.call = "none"
  /\ \E length \in IoPayloadLengths, chunk_size \in IoChunkSizes :
       io' = write_chunk_encoded(Chunk_write(IoChunk(length, chunk_size), chunk_size))
  /\ UNCHANGED <<overflow_checks, hs_vars, codec_vars, engine_vars, agg>>

\* match num_bytes_written.cmp(&num_bytes): Less is an error, Equal is Ok(())
write_chunk_written(num_bytes_written, num_bytes) ==
  IF num_bytes_written < num_bytes THEN Err("UnexpectedEof") ELSE Ok(<<>>)

\* one turn of write_chunk's loop: writable().await, then try_write(&buf), which
\* the transport answers with a count of bytes it took from the front of buf,
\* with WouldBlock, or with another error
write_chunk_try ==
  /\ io.call = "write_chunk"
  /\ io.pc = "writable"
  /\ \/ \E num_bytes_written \in 1..Len(io.buf) :
          io' = [io EXCEPT !.out = @ \o SubSeq(io.buf, 1, num_bytes_written),
                           !.pc = "returned",
                           !.result = Some(write_chunk_written(num_bytes_written,
                                                               Len(io.buf)))]
     \/ /\ io.would_block < MaxWouldBlock
        /\ io' = [io EXCEPT !.would_block = @ + 1]
     \/ io' = [io EXCEPT !.pc = "returned",
                         !.transport_error = TRUE,
                         !.result = Some(Err("Io"))]
  /\ UNCHANGED <<overflow_checks, hs_vars, codec_vars, engine_vars, agg>>

\* read_chunk from its second statement on: the leftover is copied into bytes,
\* room for chunk_size + 18 bytes in all is reserved (the subtraction fails
\* when more than that is held), and buf is bytes[num_existing_bytes..]
read_chunk_reserve(chunk_size, bytes, num_existing_bytes) ==
  IF chunk_size + 18 < num_existing_bytes
  THEN [pc |-> "returned", result |-> Some(Panic), bytes |-> bytes, buf_len |-> 0]
  ELSE [pc |-> "readable", result |-> None, bytes |-> bytes,
        buf_len |-> Len(SubSeq(bytes, num_existing_bytes + 1, Len(bytes)))]

\* read_chunk up to its loop, entered with leftover_bits: the leftover is tried
\* only when it holds at least chunk_size bytes
read_chunk_enter(chunk_size, leftover_bits) ==
  IF Len(leftover_bits) >= chunk_size /\ Chunk_read(leftover_bits, chunk_size).kind = "ok"
  THEN [pc |-> "returned", result |-> Some(Chunk_read(leftover_bits, chunk_size)),
        bytes |-> leftover_bits, buf_len |-> 0]
  ELSE read_chunk_reserve(chunk_size, leftover_bits, Len(leftover_bits))

\* the call and its transport: what the peer sent beyond the leftover is still
\* to arrive
read_chunk_entered(chunk_size, leftover_bits, in_flight, entered) ==
  [call |-> "read_chunk",
   chunk_size |-> chunk_size,
   leftover |-> leftover_bits,
   in_flight |-> in_flight,
   available |-> <<>>,
   open |-> TRUE,
   would_block |-> 0,
   transport_error |-> FALSE,
   pc |-> entered.pc,
   bytes |-> entered.bytes,
   buf_len |-> entered.buf_len,
   result |-> entered.result]

\* the bytes a peer sends: a chunk and what follows it
IoStream(length, chunk_size, trailing) ==
  Chunk_write(IoChunk(length, chunk_size), chunk_size).value \o trailing

\* the first `held` bytes of a stream are the leftover of the call
read_chunk_split(chunk_size, stream, held) ==
  read_chunk_entered(chunk_size, SubSeq(stream, 1, held), Drop(stream, held),
                     read_chunk_enter(chunk_size, SubSeq(stream, 1, held)))

\* a call of read_chunk: some prefix of what the peer sends is already held as
\* leftover, the rest is still to arrive on the open transport
read_chunk_call ==
  /\ io.call = "none"
  /\ \E length \in IoPayloadLengths, chunk_size \in IoChunkSizes, trailing \in IoTrailing :
       \E held \in 0..Len(IoStream(length, chunk_size, trailing)) :
         io' = read_chunk_split(chunk_size, IoStream(length, chunk_size, trailing), held)
  /\ UNCHANGED <<overflow_checks, hs_vars, codec_vars, engine_vars, agg>>

\* bytes the peer has sent reach the socket
transport_deliver ==
  /\ io.call = "read_chunk"
  /\ io.open
  /\ io.in_flight # <<>>
  /\ \E n \in {1, Len(io.in_flight)} :
       io' = [io EXCEPT !.available = @ \o SubSeq(io.in_flight, 1, n),
                        !.in_flight = Drop(@, n)]
  /\ UNCHANGED <<overflow_checks, hs_vars, codec_vars, engine_vars, agg>>

\* the peer closes the connection once all it sent has arrived
transport_close ==
  /\ io.call = "read_chunk"
  /\ io.open
  /\ io.in_flight = <<>>
  /\ io' = [io EXCEPT !.open = FALSE]
  /\ UNCHANGED <<overflow_checks, hs_vars, codec_vars, engine_vars, agg>>

\* what read_chunk does with the outcome of Chunk::read on the bytes a read
\* left it: the chunk, the call again on Incomplete, or the decode error
read_chunk_decoded(chunk_size, bits, decoded) ==
  IF decoded.kind = "ok"
  THEN [pc |-> "returned", result |-> Some(decoded), bytes |-> bits, buf_len |-> 0]
  ELSE IF decoded = Err("Incomplete") THEN read_chunk_enter(chunk_size, bits)
  ELSE [pc |-> "returned", result |-> Some(Err("Deku")), bytes |-> bits, buf_len |-> 0]

\* the Ok(num_bytes_read) arm: no byte read is taken for a closed connection
read_chunk_read(num_bytes_read, next) ==
  IF num_bytes_read = 0
  THEN [io EXCEPT !.pc = "returned", !.result = Some(Err("BrokenPipe"))]
  ELSE [io EXCEPT !.available = Drop(@, num_bytes_read),
                  !.pc = next.pc,
                  !.bytes = next.bytes,
                  !.buf_len = next.buf_len,
                  !.result = next.result]

\* try_read(buf) fills at most buf with what the socket holds
read_chunk_filled(num_bytes_read) ==
  read_chunk_read(num_bytes_read,
                  read_chunk_decoded(io.chunk_size,
                                     io.bytes \o SubSeq(io.available, 1, num_bytes_read),
                                     Chunk_read(io.bytes \o SubSeq(io.available, 1, num_bytes_read),
                                                io.chunk_size)))

\* one turn of read_chunk's loop: readable().await, which returns when the
\* socket holds data or has reached its end, then try_read(buf), which is
\* answered by a count, by WouldBlock or by another error
read_chunk_try ==
  /\ io.call = "read_chunk"
  /\ io.pc = "readable"
  /\ io.available # <<>> \/ ~io.open
  /\ \/ io' = read_chunk_filled(Min(io.buf_len, Len(io.available)))
     \/ /\ io.would_block < MaxWouldBlock
        /\ io' = [io EXCEPT !.would_block = @ + 1]
     \/ io' = [io EXCEPT !.pc = "returned",
                         !.transport_error = TRUE,
                         !.result = Some(Err("Io"))]
  /\ UNCHANGED <<overflow_checks, hs_vars, codec_vars, engine_vars, agg>>

----------------------------------------------------------------------------
(* Aggregate messages: src/src/message/payload/aggregate.rs *)

SubTimestampValues == {U32(0, 1000), U32(0, 1040), U32_MAX}

AggregateTimestampValues == {U32(0, 500), U32(0, 1000), U32(0, 2000)}

SubStreamIdValues == {U32(0, 1), U32(0, 2)}

AggregateStreamIdValues == {U32(0, 1)}

SubPayloadLengths == {0, 8}

\* audio messages whose payload_length is the length of their data
SubMessages ==
  {[header |-> [message_type |-> 8, payload_length |-> U32(0, n),
                timestamp |-> t, stream_id |-> s],
    data |-> PayloadOf(n)] :
     n \in SubPayloadLengths, t \in SubTimestampValues, s \in SubStreamIdValues}

\* the sub-message lists of an aggregate: none, one or two of one stream
SubMessageLists ==
  {<<>>} \cup {<<m>> : m \in SubMessages}
  \cup {l \in {<<m, n>> : m \in SubMessages, n \in SubMessages} :
          l[1].header.stream_id = l[2].header.stream_id}

\* derive(DekuWrite) for Message: the header's four fields, big-endian, then
\* the data
Message_write(message) ==
  <<message.header.message_type>>
  \o Be3(message.header.payload_length)
  \o BeBytes(message.header.timestamp)
  \o Be3(message.header.stream_id)
  \o message.data

\* derive(DekuRead) for Message: the 11-byte header, then for an audio or video
\* message payload_length bytes of data
Message_read(input) ==
  IF Len(input) < 11 THEN Err("Incomplete")
  ELSE
    LET header == [message_type   |-> input[1],
                   payload_length |-> FromBe3(SubSeq(input, 2, 4)),
                   timestamp      |-> FromBeBytes(SubSeq(input, 5, 8)),
                   stream_id      |-> FromBe3(SubSeq(input, 9, 11))]
        count  == ToInt(header.payload_length)
    IN  IF header.message_type \notin {8, 9} THEN Err("Parse")
        ELSE IF Len(input) < 11 + count THEN Err("Incomplete")
        ELSE Ok([rest    |-> Drop(input, 11 + count),
                 message |-> [header |-> header, data |-> SubSeq(input, 12, 11 + count)]])

\* impl DekuWrite for Aggregate: each message, then its size in 4 bytes
RECURSIVE Aggregate_write(_)
Aggregate_write(messages) ==
  IF messages = <<>> THEN <<>>
  ELSE LET written_message == Message_write(messages[1])
           message_size == ToU32(Len(written_message))
       IN  written_message \o BeBytes(message_size) \o Aggregate_write(Tail(messages))

\* let message_length: u32 = (after_message.len() / 8).try_into().unwrap()
message_length_read(after_message, message) == ToU32(Len(after_message))

\* timestamp_offset = aggregate_timestamp.checked_sub(timestamp)
\*   .unwrap_or(timestamp - aggregate_timestamp): the argument of unwrap_or is
\* computed whatever checked_sub returned
timestamp_offset_of(aggregate_timestamp, timestamp) ==
  IF overflow_checks /\ U32Lt(timestamp, aggregate_timestamp) THEN Panic
  ELSE IF ~U32Lt(aggregate_timestamp, timestamp)
  THEN Ok(WrappingSub(aggregate_timestamp, timestamp))
  ELSE Ok(WrappingSub(timestamp, aggregate_timestamp))

\* message.header.timestamp -= timestamp_offset
renormalize(timestamp, timestamp_offset) ==
  IF overflow_checks /\ U32Lt(timestamp, timestamp_offset) THEN Panic
  ELSE Ok(WrappingSub(timestamp, timestamp_offset))

\* the Ordering::Less arm of the loop of Aggregate::read once a message has
\* been read: the sub-message as it is pushed, the input after its back
\* pointer and the offset in force
Aggregate_read_message(read, output, message_stream_id, aggregate_timestamp, timestamp_offset) ==
  LET after_message  == read.rest
      message_length == message_length_read(after_message, read.message)
      offset         == IF output = <<>>
                        THEN timestamp_offset_of(aggregate_timestamp,
                                                 read.message.header.timestamp)
                        ELSE Ok(timestamp_offset)
  IN  IF offset.kind # "ok" THEN offset
      ELSE
        LET timestamp == renormalize(read.message.header.timestamp, offset.value)
        IN  IF timestamp.kind # "ok" THEN timestamp
            ELSE IF Len(after_message) < 4 THEN Err("Incomplete")
            ELSE IF FromBeBytes(SubSeq(after_message, 1, 4)) # message_length
            THEN Err("Assertion")
            ELSE Ok([message |-> [read.message EXCEPT
                                    !.header.stream_id = message_stream_id,
                                    !.header.timestamp = timestamp.value],
                     rest |-> Drop(after_message, 4),
                     timestamp_offset |-> offset.value])

\* the loop of Aggregate::read
RECURSIVE Aggregate_read_loop(_, _, _, _, _, _, _)
Aggregate_read_loop(output, bytes_read, remaining_bits, timestamp_offset, payload_length, message_stream_id, aggregate_timestamp) ==
  IF bytes_read = payload_length
  THEN Ok([rest |-> remaining_bits, aggregate |-> output])
  ELSE IF bytes_read > payload_length THEN Err("Assertion")
  ELSE
    LET read == Message_read(remaining_bits)
    IN  IF read.kind # "ok" THEN read
        ELSE
          LET pushed == Aggregate_read_message(read.value, output, message_stream_id,
                                               aggregate_timestamp, timestamp_offset)
          IN  IF pushed.kind # "ok" THEN pushed
              ELSE Aggregate_read_loop(Append(output, pushed.value.message),
                                       bytes_read + (Len(remaining_bits) - Len(pushed.value.rest)),
                                       pushed.value.rest,
                                       pushed.value.timestamp_offset,
                                       payload_length, message_stream_id, aggregate_timestamp)

\* impl DekuRead for Aggregate
Aggregate_read(input, payload_length, message_stream_id, aggregate_timestamp) ==
  Aggregate_read_loop(<<>>, 0, input, U32_ZERO, payload_length, message_stream_id, aggregate_timestamp)

\* sub-messages as a peer lays them out for this reader: after each one the
\* 4-byte count of the bytes that follow the message in the input
RECURSIVE AggregateInput(_, _)
AggregateInput(messages, trailing) ==
  IF messages = <<>> THEN trailing
  ELSE LET later == AggregateInput(Tail(messages), trailing)
       IN  Message_write(messages[1]) \o BeBytes(ToU32(4 + Len(later))) \o later

AggregateTrailing == {<<>>, <<1, 2, 3>>}

\* no aggregate has been written or read
NoAgg == [stage |-> "none"]

\* Aggregate::write of a list of sub-messages
aggregate_write ==
  /\ agg.stage = "none"
  /\ \E messages \in SubMessageLists, s \in AggregateStreamIdValues,
        t \in AggregateTimestampValues :
       LET output == Aggregate_write(messages)
       IN  agg' = [stage |-> "written", from |-> "write", messages |-> messages,
                   message_stream_id |-> s, aggregate_timestamp |-> t,
                   bytes |-> output, payload_length |-> Len(output), trailing |-> <<>>,
                   result |-> None]
  /\ UNCHANGED <<overflow_checks, hs_vars, codec_vars, engine_vars, io>>

\* an aggregate payload arrives from a peer, followed by other bytes or not
aggregate_input ==
  /\ agg.stage = "none"
  /\ \E messages \in SubMessageLists, s \in AggregateStreamIdValues,
        t \in AggregateTimestampValues, trailing \in AggregateTrailing :
       LET input == AggregateInput(messages, trailing)
       IN  agg' = [stage |-> "written", from |-> "input", messages |-> messages,
                   message_stream_id |-> s, aggregate_timestamp |-> t,
                   bytes |-> input, payload_length |-> Len(input) - Len(trailing),
                   trailing |-> trailing, result |-> None]
  /\ UNCHANGED <<overflow_checks, hs_vars, codec_vars, engine_vars, io>>

\* Aggregate::read of the bytes at hand
aggregate_read ==
  /\ agg.stage = "written"
  /\ agg' = [agg EXCEPT !.stage = "read",
                        !.result = Some(Aggregate_read(agg.bytes, agg.payload_length,
                                                       agg.message_stream_id,
                                                       agg.aggregate_timestamp))]
  /\ UNCHANGED <<overflow_checks, hs_vars, codec_vars, engine_vars, io>>

----------------------------------------------------------------------------
(* The specifications *)

\* no handshake is running
HsIdle ==
  /\ ep = [e \in Endpoints |-> EpInit]
  /\ written = [e \in Endpoints |-> <<>>]
  /\ nread = [e \in Endpoints |-> 0]
  /\ peer = [version |-> 3, their_ts |-> U32_ZERO, zero |-> U32_ZERO,
             echo_timestamp |-> TRUE, echo_random |-> TRUE,
             they_received_at |-> U32_ZERO, sent |-> 0]

\* no chunk header has been written or read
CodecIdle ==
  /\ incoming = <<>>
  /\ outgoing = <<>>
  /\ tx = NoTx
  /\ wire = <<>>
  /\ rx = NoRx
  /\ nheaders = 0

\* no message has been sent
EngineIdle ==
  /\ engine = "running"
  /\ sent = <<>>
  /\ received = <<>>

\* no chunk has been written to or read from a transport, and no aggregate
IoIdle ==
  /\ io = NoIo
  /\ agg = NoAgg

\* handshake() against the scripted peer
Init ==
  /\ overflow_checks \in BOOLEAN
  /\ ep = [e \in Endpoints |-> EpInit]
  /\ written = [e \in Endpoints |-> <<>>]
  /\ nread = [e \in Endpoints |-> 0]
  /\ peer \in PeerScripts
  /\ CodecIdle
  /\ EngineIdle
  /\ IoIdle

Next ==
  \/ new_with_clock("local")
  \/ peer_send

Spec == Init /\ [][Next]_vars

\* chunk headers built, written, and read back against the chunk stream map
HeaderInit ==
  /\ overflow_checks \in BOOLEAN
  /\ HsIdle
  /\ CodecIdle
  /\ EngineIdle
  /\ IoIdle

HeaderNext ==
  \/ write_header
  \/ peer_continue
  \/ read_header

SpecHeader == HeaderInit /\ [][HeaderNext]_vars

\* basic headers encoded and decoded
BasicInit ==
  /\ overflow_checks \in BOOLEAN
  /\ HsIdle
  /\ CodecIdle
  /\ EngineIdle
  /\ IoIdle

BasicNext ==
  \/ basic_write
  \/ basic_input
  \/ basic_read

SpecBasic == BasicInit /\ [][BasicNext]_vars

\* messages sent through the engine and received from it
EngineInit ==
  /\ overflow_checks \in BOOLEAN
  /\ HsIdle
  /\ CodecIdle
  /\ EngineIdle
  /\ IoIdle

EngineNext ==
  \/ send_message
  \/ recv_chunk

SpecEngine == EngineInit /\ [][EngineNext]_vars

\* two endpoints that both run new_with_clock, each on its end of one duplex
\* transport
PairInit ==
  /\ overflow_checks \in BOOLEAN
  /\ HsIdle
  /\ CodecIdle
  /\ EngineIdle
  /\ IoIdle

\* the steps of the two calls; send_2, recv_2 and handshake_return wait for the
\* join of send_0_1 and recv_0_1, which PairNeverJoins shows is never reached
PairNext ==
  \E e \in Endpoints :
    \/ send_0_1(e)
    \/ recv_0_1(e)
    \/ new_with_clock_return(e)

SpecPair == PairInit /\ [][PairNext]_vars

\* between two of these endpoints no recv_0_1 finishes, so neither call gets
\* past its first join
PairNeverJoins == \A e \in Endpoints : ~Joined_0_1(ep[e])

\* a chunk stream with a history, asked for the timestamp of its next header
TimestampInit ==
  /\ overflow_checks \in BOOLEAN
  /\ HsIdle
  /\ incoming \in {HistoryMap(t, d) : t \in HistoryTimestampValues, d \in HistoryDeltaValues}
  /\ outgoing = <<>>
  /\ tx = NoTx
  /\ wire = <<>>
  /\ rx = NoRx
  /\ nheaders = 0
  /\ EngineIdle
  /\ IoIdle

TimestampNext == header_timestamp

SpecTimestamp == TimestampInit /\ [][TimestampNext]_vars

\* chunks written to and read from a tokio transport
IoInit ==
  /\ overflow_checks \in BOOLEAN
  /\ HsIdle
  /\ CodecIdle
  /\ EngineIdle
  /\ IoIdle

IoNext ==
  \/ write_chunk_call
  \/ write_chunk_try
  \/ read_chunk_call
  \/ transport_deliver
  \/ transport_close
  \/ read_chunk_try

SpecIo == IoInit /\ [][IoNext]_vars

\* aggregate payloads written and read
AggregateInit ==
  /\ overflow_checks \in BOOLEAN
  /\ HsIdle
  /\ CodecIdle
  /\ EngineIdle
  /\ IoIdle

AggregateNext ==
  \/ aggregate_write
  \/ aggregate_input
  \/ aggregate_read

SpecAggregate == AggregateInit /\ [][AggregateNext]_vars

----------------------------------------------------------------------------
(* The claims *)

\* C1: against a peer that follows the protocol (S0 = 3, S1 = their_ts, a zero
\* block and a random block, S2 = the echo of our timestamp, they_received_at
\* and the echo of our random block) the handshake never returns an error,
\* whatever their_ts is; with clock.now() = 1, their_ts = 2 and
\* they_received_at = 2 it returns the latency estimate 0.
C1_ConformingPeerSucceeds ==
  IsConforming(peer) =>
    /\ ep["local"].result \in {"running", "ok"}
    /\ (/\ ep["local"].result = "ok"
        /\ ep["local"].our_timestamp = U32(0, 1)
        /\ peer.their_ts = U32(0, 2)
        /\ peer.they_received_at = U32(0, 2))
       => ep["local"].latency = U32_ZERO

\* C2: a header built by a public constructor with a valid chunk stream id
\* is encoded, and decoding its bytes against the chunk stream's prior state
\* returns an equal header and consumes exactly the encoded bytes.
C2_HeaderRoundTrip ==
  /\ (tx.from = "local" /\ tx.built.kind = "ok") => tx.bytes.kind = "ok"
  /\ rx.from = "local" =>
       /\ rx.result.kind = "ok"
       /\ rx.result.value.header = rx.sent.built.value
       /\ rx.result.value.consumed = Len(rx.sent.bytes.value)

\* C3: for every chunk type in 0..3 and every chunk stream id in [2, 65599],
\* the basic header is encoded and decoding its bytes returns the same chunk
\* type and the same chunk stream id.
C3_CsidBijection ==
  LET valid(basic_header) ==
        basic_header.chunk_stream_id >= 2 /\ basic_header.chunk_stream_id <= 65599
  IN  /\ (tx.from = "basic" /\ valid(tx.basic_header)) => tx.bytes.kind = "ok"
      /\ (rx.from = "basic" /\ valid(rx.sent.basic_header)) =>
           /\ rx.result.kind = "ok"
           /\ rx.result.value.basic_header = rx.sent.basic_header

\* C4: decoding a type-3 header on a chunk stream with state reads a 4-byte
\* extended timestamp if and only if the most recent type-0/1/2 header on
\* that chunk stream used the 0xFFFFFF escape.
C4_Type3SuffixFromState ==
  (/\ rx.from # "none"
   /\ rx.result.kind = "ok"
   /\ rx.result.value.header.message_header.variant = Variant(3)
   /\ rx.prior # None)
  => (rx.result.value.header.extended_timestamp # None
      <=> rx.prior[1].has_extended_timestamp_in_effect)

\* C5: a type-3 continuation header written for a message whose first header
\* used the extended-timestamp escape is the basic header followed by the same
\* 4-byte extended timestamp; for any other message it is the basic header
\* alone.
C5_ContinuationRepeatsSuffix ==
  (/\ tx.from = "local"
   /\ tx.call = "continue_message"
   /\ tx.bytes.kind = "ok"
   /\ tx.built.value.basic_header.chunk_stream_id \in DOMAIN outgoing)
  => LET first == outgoing[tx.built.value.basic_header.chunk_stream_id]
         basic == BasicHeader_write(tx.built.value.basic_header).value
     IN  tx.bytes.value =
           basic \o (IF first.extended_timestamp # None
                     THEN BeBytes(first.extended_timestamp[1]) ELSE <<>>)

\* C6: whenever the 3-byte timestamp or timestamp_delta field of a decoded
\* type-0/1/2 header is 0xFFFFFF, a 4-byte value was read after it and
\* Header::timestamp reports that 4-byte value.
C6_EscapeReportsExtended ==
  (/\ rx.from # "none"
   /\ rx.result.kind = "ok"
   /\ rx.result.value.header.message_header.variant # Variant(3)
   /\ (IF rx.result.value.header.message_header.variant = Variant(0)
       THEN rx.result.value.header.message_header.timestamp
       ELSE rx.result.value.header.message_header.timestamp_delta) = ESCAPE)
  => /\ rx.result.value.header.extended_timestamp # None
     /\ rx.timestamp.kind = "ok"
     /\ rx.timestamp.value.inner = rx.result.value.header.extended_timestamp[1]

\* C7: a type-1, type-2 or type-3 header for a chunk stream id with no entry
\* in the inbound map is not decoded with success and asking it for its
\* timestamp does not abort the program; a type-0 header without prior state
\* is accepted.
C7_DanglingCompression ==
  rx.from # "none" =>
    /\ rx.timestamp.kind # "panic"
    /\ (rx.result.kind = "ok"
        /\ rx.result.value.header.message_header.variant # Variant(0))
       => rx.prior # None
    /\ (rx.from = "local" /\ rx.sent.call = "begin_or_rewind_stream")
       => rx.result.kind = "ok"

\* C8: the engine neither fails nor aborts on a message it is given, the
\* messages recv() has yielded are the first messages sent, each with the same
\* type_id, stream_id, payload and timestamp, and once every chunk written has
\* been read all messages sent have been received.
C8_MessageIntegrity ==
  /\ engine = "running"
  /\ Len(received) <= Len(sent)
  /\ \A i \in 1..Len(received) : received[i] = sent[i]
  /\ wire = <<>> => Len(received) = Len(sent)

----------------------------------------------------------------------------
\* the bytes send_0_1 writes: the version, the timestamp, the random block
LEN_C0_C1 == 1 + 4 + RANDOM_LEN

\* the bytes of S0 and S1: the version, two 4-byte fields, the random block
LEN_S0_S1 == 1 + 4 + 4 + RANDOM_LEN

\* the bytes the next read of recv_0_1 waits for
Recv01Needs(label) == IF label = "read_version" THEN 1
                      ELSE IF label = "read_random" THEN RANDOM_LEN ELSE 4

\* C9: no byte of C2 is written before send_0_1 has written all of C0/C1 and
\* recv_0_1 has read all of S0/S1; in phase 1 the send half can always take
\* its next step and the receive half can take its next step as soon as the
\* bytes it reads have arrived, whatever the other half has done.
C9_Phase2AfterPhase1 ==
  /\ Len(written["local"]) > LEN_C0_C1 =>
       /\ ep["local"].send \notin Send01Labels
       /\ ep["local"].recv \notin Recv01Labels
       /\ nread["local"] >= LEN_S0_S1
  /\ (ep["local"].result = "running" /\ ep["local"].send \in Send01Labels)
       => ENABLED send_0_1("local")
  /\ (/\ ep["local"].result = "running"
      /\ ep["local"].recv \in Recv01Labels
      /\ Available("local") >= Recv01Needs(ep["local"].recv))
       => ENABLED recv_0_1("local")

\* the handshake is running and a byte of C2 has been written
C9_Witness ==
  /\ Len(written["local"]) > LEN_C0_C1
  /\ ep["local"].result = "running"

\* C10: after a version byte of 3 the first 4-byte field of S1 is recorded as
\* their_ts and the handshake fails on S1 if and only if the second 4-byte
\* field is not zero, whatever their_ts is.
C10_ZeroBlockIsSecondField ==
  (peer.version = 3 /\ peer.sent >= 2) =>
    /\ ep["local"].result = "err_zero" => peer.zero # U32_ZERO
    /\ (ep["local"].result = "running" /\ ep["local"].recv \notin Recv01Labels)
       => (peer.zero = U32_ZERO /\ ep["local"].their_timestamp = peer.their_ts)

----------------------------------------------------------------------------
\* C11: when the first byte received from the peer is not 3 the handshake has
\* failed on the version as soon as that byte is read (and only then), no byte
\* of C2 is ever written and new_with_clock builds no ChunkStream.
C11_BadVersionFails ==
  nread["local"] >= 1 =>
    /\ ep["local"].result = "err_version" <=> written["peer"][1] # 3
    /\ written["peer"][1] # 3 =>
         /\ Len(written["local"]) <= LEN_C0_C1
         /\ ep["local"].chunk_stream \in {"pending", "Err"}

\* a version byte of 4 was read and new_with_clock has returned the error
C11_Witness ==
  /\ nread["local"] = 1
  /\ written["peer"][1] = 4
  /\ ep["local"].result = "err_version"
  /\ ep["local"].chunk_stream = "Err"

\* C12: the handshake returns success only if the first 4-byte field of S2 is
\* the timestamp written in C1 and the last 1528 bytes of S2 are the 1528
\* bytes written in C1; once a field that differs has been read the handshake
\* has failed on it.
C12_S2Validation ==
  LET got         == nread["local"] - LEN_S0_S1
      echo_ts     == SubSeq(written["peer"], LEN_S0_S1 + 1, LEN_S0_S1 + 4)
      sent_ts     == SubSeq(written["local"], 2, 5)
      echo_random == SubSeq(written["peer"], LEN_S0_S1 + 9, LEN_S0_S1 + 8 + RANDOM_LEN)
      sent_random == SubSeq(written["local"], 6, 5 + RANDOM_LEN)
  IN  /\ ep["local"].result = "ok" => (echo_ts = sent_ts /\ echo_random = sent_random)
      /\ (got >= 4 /\ echo_ts # sent_ts) => ep["local"].result = "err_timestamp_echo"
      /\ (got >= 8 + RANDOM_LEN /\ echo_random # sent_random)
           => ep["local"].result = "err_random_echo"

\* all of S2 was read and its random block was not the one sent
C12_Witness ==
  /\ nread["local"] = LEN_S0_S1 + 8 + RANDOM_LEN
  /\ ep["local"].result = "err_random_echo"

\* C13: once send_0_1 has finished, and before C2, the endpoint has written
\* 1537 bytes: 3, the timestamp big-endian, four zero bytes, 1528 more bytes.
C13_C0C1Bytes ==
  ep["local"].send = "write_their_timestamp" =>
    /\ Len(written["local"]) = 1 + 4 + 4 + RANDOM_LEN
    /\ SubSeq(written["local"], 1, 9)
         = <<3>> \o BeBytes(ep["local"].our_timestamp) \o <<0, 0, 0, 0>>

\* C14: the C2 block written is the first 4-byte field of S1 as received, then
\* received_at, then the 1528 bytes of S1 as received.
C14_C2Contents ==
  ep["local"].send = "done" =>
    LET c2 == Drop(written["local"], LEN_C0_C1)
    IN  /\ Len(c2) = 8 + RANDOM_LEN
        /\ SubSeq(c2, 1, 4) = SubSeq(written["peer"], 2, 5)
        /\ SubSeq(c2, 5, 8) = BeBytes(ep["local"].received_at)
        /\ SubSeq(c2, 9, 8 + RANDOM_LEN) = SubSeq(written["peer"], 10, 9 + RANDOM_LEN)

\* C15: once both halves of phase 2 have finished, the handshake returns the
\* latency (they_received_at - their_timestamp) mod 2^32 and does not fail on
\* computing it.
C15_LatencyIsModular ==
  (/\ ep["local"].send = "done"
   /\ ep["local"].recv = "done"
   /\ ep["local"].result # "running") =>
    /\ ep["local"].result = "ok"
    /\ ep["local"].latency =
         WrappingSub(ep["local"].they_received_at, ep["local"].their_timestamp)

\* C16: new_with_clock returns a ChunkStream only when the handshake returned
\* success; when the handshake returned an error, new_with_clock returns the
\* error, and the transport has carried nothing but the handshake's bytes.
C16_ConnectAfterHandshake ==
  /\ ep["local"].chunk_stream = "ChunkStream" => ep["local"].result = "ok"
  /\ (ep["local"].chunk_stream # "pending" /\ ep["local"].result \notin {"ok", "panic"})
       => ep["local"].chunk_stream = "Err"
  /\ ep["local"].chunk_stream # "ChunkStream" =>
       /\ Len(written["local"]) <= LEN_C0_C1 + 8 + RANDOM_LEN
       /\ nread["local"] <= LEN_S0_S1 + 8 + RANDOM_LEN
       /\ wire = <<>>

\* the handshake failed on the zero block and new_with_clock returned the error
C16_Witness ==
  /\ ep["local"].result = "err_zero"
  /\ ep["local"].chunk_stream = "Err"

----------------------------------------------------------------------------
\* C17: for every chunk type t and chunk stream id in [2, 65599] the basic
\* header is encoded as (t<<6)|csid for csid <= 63, as (t<<6)|0 and csid-64
\* for csid <= 319, and otherwise as (t<<6)|1, the low byte of csid-64 and the
\* high byte of csid-64.
C17_BasicHeaderEncoding ==
  (/\ tx.from = "basic"
   /\ tx.basic_header.chunk_stream_id >= 2
   /\ tx.basic_header.chunk_stream_id <= 65599) =>
    LET t == tx.basic_header.chunk_type
        c == tx.basic_header.chunk_stream_id
    IN  tx.bytes = Ok(IF c <= 63 THEN <<t * 64 + c>>
                      ELSE IF c <= 319 THEN <<t * 64, c - 64>>
                      ELSE <<t * 64 + 1, (c - 64) % 256, (c - 64) \div 256>>)

\* C18: whatever follows the header, low six bits 0 in the first byte decode
\* to the chunk stream id second byte + 64 with 2 bytes consumed, low six bits
\* 1 to third byte * 256 + second byte + 64 with 3 bytes consumed, and any
\* other value to itself with 1 byte consumed; the chunk type is the top two
\* bits.
C18_BasicHeaderDecoding ==
  (rx.from \in {"basic", "raw"} /\ Len(rx.input) >= 3) =>
    LET b   == rx.input
        six == b[1] % 64
    IN  rx.result =
          Ok([basic_header |->
                [chunk_type |-> b[1] \div 64,
                 chunk_stream_id |-> IF six = 0 THEN b[2] + 64
                                     ELSE IF six = 1 THEN b[3] * 256 + b[2] + 64
                                     ELSE six],
              consumed |-> IF six = 0 THEN 2 ELSE IF six = 1 THEN 3 ELSE 1])

\* C19: encoding a basic header with chunk stream id 0 or 1 returns the
\* reserved-id error and with an id above 65599 the too-large error, for every
\* chunk type, and nothing has been appended to the output.
C19_CsidErrors ==
  (/\ tx.from = "basic"
   /\ (tx.basic_header.chunk_stream_id < 2 \/ tx.basic_header.chunk_stream_id > 65599)) =>
    /\ tx.bytes.kind = "err"
    /\ tx.bytes.error = IF tx.basic_header.chunk_stream_id < 2
                        THEN "ReservedCsid" ELSE "CsidTooLarge"
    /\ tx.bytes.appended_bits = 0

\* C20: the message header of chunk type 0, 1, 2, 3 takes 11, 7, 3, 0 bytes;
\* the timestamp or delta and the message length are 3 bytes big-endian, the
\* message type id one byte and the message stream id 4 bytes little-endian,
\* in decoding and in encoding alike.
C20_MessageHeaderLayout ==
  LET size(t) == CASE t = 0 -> 11 [] t = 1 -> 7 [] t = 2 -> 3 [] t = 3 -> 0
      be3(m, i) == m[i] * 65536 + m[i + 1] * 256 + m[i + 2]
      laid_out(mh, t, m) ==
        /\ t = 0 => /\ ToInt(mh.timestamp) = be3(m, 1)
                    /\ mh.message_stream_id
                         = U32(m[11] * 256 + m[10], m[9] * 256 + m[8])
        /\ t \in {1, 2} => ToInt(mh.timestamp_delta) = be3(m, 1)
        /\ t \in {0, 1} => /\ ToInt(mh.message_length) = be3(m, 4)
                           /\ mh.message_type_id = m[7]
      extended(h) == IF h.extended_timestamp = None THEN 0 ELSE 4
  IN  /\ (rx.from \in {"local", "peer"} /\ rx.result.kind = "ok") =>
           LET h     == rx.result.value.header
               basic == BasicHeader_read(rx.input).value.consumed
           IN  /\ rx.result.value.consumed
                    = basic + size(h.basic_header.chunk_type) + extended(h)
               /\ laid_out(h.message_header, h.basic_header.chunk_type,
                           Drop(rx.input, basic))
      /\ (tx.from = "local" /\ tx.bytes.kind = "ok") =>
           LET h     == tx.built.value
               basic == Len(BasicHeader_write(h.basic_header).value)
           IN  /\ Len(tx.bytes.value)
                    = basic + size(h.basic_header.chunk_type) + extended(h)
               /\ laid_out(h.message_header, h.basic_header.chunk_type,
                           Drop(tx.bytes.value, basic))

\* a type-0 header written on chunk stream 3 has been decoded from 12 bytes
C20_Witness ==
  /\ rx.from = "local"
  /\ rx.result.kind = "ok"
  /\ rx.result.value.header.basic_header = [chunk_type |-> 0, chunk_stream_id |-> 3]
  /\ rx.result.value.consumed = 12
  /\ rx.result.value.header.message_header.message_stream_id = U32(1, 2)

----------------------------------------------------------------------------
\* C21: for header types 0, 1 and 2 a constructor given a value below
\* 0xFFFFFF keeps it in the 3-byte field with no extended timestamp, and given
\* a value of 0xFFFFFF or more sets the field to 0xFFFFFF and stores the value
\* as extended; the encoded header ends with the 4 bytes big-endian of the
\* value exactly in the second case, and a decoded header has an extended
\* timestamp, read from the 4 bytes after the message header, exactly when
\* its field is 0xFFFFFF.
C21_ExtendedTimestampIffEscape ==
  LET size(t) == CASE t = 0 -> 11 [] t = 1 -> 7 [] t = 2 -> 3
      field(h) == IF h.basic_header.chunk_type = 0 THEN h.message_header.timestamp
                  ELSE h.message_header.timestamp_delta
  IN  /\ (tx.from = "local" /\ tx.built.kind = "ok"
          /\ tx.built.value.basic_header.chunk_type <= 2) =>
           LET h      == tx.built.value
               escape == ToInt(tx.args.timestamp) >= 16777215
               after  == Drop(tx.bytes.value,
                              Len(BasicHeader_write(h.basic_header).value)
                              + size(h.basic_header.chunk_type))
           IN  /\ ~escape => (field(h) = tx.args.timestamp /\ h.extended_timestamp = None)
               /\ escape => (/\ ToInt(field(h)) = 16777215
                             /\ h.extended_timestamp = Some(tx.args.timestamp))
               /\ tx.bytes.kind = "ok" =>
                    after = IF escape THEN BeBytes(tx.args.timestamp) ELSE <<>>
      /\ (rx.from \in {"local", "peer"} /\ rx.result.kind = "ok"
          /\ rx.result.value.header.basic_header.chunk_type <= 2) =>
           LET h     == rx.result.value.header
               start == BasicHeader_read(rx.input).value.consumed
                        + size(h.basic_header.chunk_type)
           IN  IF ToInt(field(h)) = 16777215
               THEN /\ rx.result.value.consumed = start + 4
                    /\ h.extended_timestamp
                         = Some(FromBeBytes(SubSeq(rx.input, start + 1, start + 4)))
               ELSE /\ rx.result.value.consumed = start
                    /\ h.extended_timestamp = None

\* a type-1 header built with the delta 0xFFFFFF itself has been decoded with
\* that extended timestamp
C21_Witness ==
  /\ rx.from = "local"
  /\ rx.sent.call = "begin_variable_length_message"
  /\ rx.sent.args.timestamp = ESCAPE
  /\ rx.result.kind = "ok"
  /\ rx.result.value.header.basic_header.chunk_type = 1
  /\ rx.result.value.header.extended_timestamp = Some(ESCAPE)

----------------------------------------------------------------------------
\* C22: a header from a public constructor is encoded, and the number of bytes
\* written is its size(): the basic header's 1, 2 or 3 bytes, the message
\* header's 11, 7, 3 or 0 bytes, and 4 more with an extended timestamp; it is
\* at most 18.
C22_SizeLaw ==
  (tx.from = "local" /\ tx.built.kind = "ok") =>
    LET h == tx.built.value
    IN  /\ tx.bytes.kind = "ok"
        /\ Len(tx.bytes.value) = Header_size(h)
        /\ Header_size(h)
             = (IF h.basic_header.chunk_stream_id <= 63 THEN 1
                ELSE IF h.basic_header.chunk_stream_id <= 319 THEN 2 ELSE 3)
               + (CASE h.basic_header.chunk_type = 0 -> 11
                    [] h.basic_header.chunk_type = 1 -> 7
                    [] h.basic_header.chunk_type = 2 -> 3
                    [] h.basic_header.chunk_type = 3 -> 0)
               + (IF h.extended_timestamp = None THEN 0 ELSE 4)
        /\ Header_size(h) <= 18

\* C23: begin_or_rewind_stream and begin_variable_length_message return the
\* error MessageTooLong for a message length above 0xFFFFFF and, the chunk
\* stream id being valid, a header with that message length for any other.
C23_MessageTooLong ==
  (/\ tx.from = "local"
   /\ tx.call \in {"begin_or_rewind_stream", "begin_variable_length_message"}) =>
    IF ToInt(tx.args.message_length) > 16777215
    THEN tx.built = Err("MessageTooLong")
    ELSE /\ tx.built.kind = "ok"
         /\ tx.built.value.message_header.message_length = tx.args.message_length

\* begin_variable_length_message was called with the length 0x1000000
C23_Witness ==
  /\ tx.from = "local"
  /\ tx.call = "begin_variable_length_message"
  /\ tx.args.message_length = U32(256, 0)
  /\ tx.built = Err("MessageTooLong")

\* C24: when the transport takes fewer bytes than the encoded chunk or answers
\* WouldBlock, write_chunk goes on until every byte of the chunk has been
\* written once and in order; unless the transport reports an error of its own
\* the call returns Ok and the transport holds exactly the chunk's bytes.
C24_ShortWriteRetried ==
  (io.call = "write_chunk" /\ io.pc = "returned" /\ ~io.transport_error) =>
    /\ io.result = Some(Ok(<<>>))
    /\ io.out = io.buf

\* C28: on an open transport read_chunk returns the connection-closed error
\* only when the transport has reached its end, and a complete chunk that is
\* already in the leftover is returned by the call without a read.
C28_ReadChunk ==
  io.call = "read_chunk" =>
    /\ io.result = Some(Err("BrokenPipe")) => (~io.open /\ io.available = <<>>)
    /\ Chunk_read(io.leftover, io.chunk_size).kind = "ok" =>
         /\ io.pc = "returned"
         /\ io.result = Some(Chunk_read(io.leftover, io.chunk_size))

\* C25: the timestamp a chunk stream arrives at after a header is
\* last_timestamp plus a delta modulo 2^32, the delta being the header's own
\* (the extended one when the field is escaped) for types 1 and 2 and the
\* chunk stream's last delta for type 3; a type-0 header sets it absolutely.
C25_TimestampReconstruction ==
  rx.from = "timestamp" =>
    LET header == rx.result.value.header
        state  == rx.prior[1]
        own    == IF header.extended_timestamp # None THEN header.extended_timestamp[1]
                  ELSE IF header.message_header.variant = Variant(0)
                  THEN header.message_header.timestamp
                  ELSE header.message_header.timestamp_delta
    IN  /\ rx.timestamp.kind = "ok"
        /\ EffectiveTimestamp(state.last_timestamp, rx.timestamp.value) =
             CASE header.message_header.variant = Variant(0) -> own
               [] header.message_header.variant \in {Variant(1), Variant(2)} ->
                    WrappingAdd(state.last_timestamp, own)
               [] header.message_header.variant = Variant(3) ->
                    WrappingAdd(state.last_timestamp, state.last_delta)

\* C26: for every inbound chunk, the first chunk of a message on a chunk
\* stream without prior state included, the count of payload bytes to read is
\* the smaller of the inbound chunk size and the bytes of the message not yet
\* buffered, so the buffer never grows beyond message_length.
C26_PayloadBytesRead ==
  rx.from = "Chunk::read" =>
    /\ rx.bytes_to_read = Some(Min(DEFAULT_CHUNK_SIZE, rx.message_length - rx.buffered))
    /\ rx.buffered + rx.bytes_to_read[1] <= rx.message_length

\* C27: two endpoints that both run this handshake over a reliable duplex
\* transport, with any clock values, both succeed: neither rejects what the
\* other sent, and they are never both waiting with no step of either
\* handshake possible.
C27_PairSucceeds ==
  /\ \A e \in Endpoints : ep[e].result \in {"running", "ok"}
  /\ (\A e \in Endpoints : ep[e].result = "running")
       => ENABLED (\E e \in Endpoints : handshake(e))

\* the two calls wait for each other: each has sent its C0 and C1 and waits for
\* more bytes of the other's, which has nothing left to send
C27_MutualWait ==
  ~(/\ \A e \in Endpoints : ep[e].result = "running" /\ ep[e].recv = "read_random"
    /\ ~ENABLED (\E e \in Endpoints : handshake(e)))

\* C29: an aggregate whose sub-messages carry the aggregate's stream id and
\* whose first sub-message has the aggregate's timestamp is read back from the
\* bytes Aggregate::write produced, with payload_length the number of those
\* bytes, as the same list of sub-messages; the back pointer after a
\* sub-message is its size in bytes, header included, and the reader accepts it.
C29_AggregateRoundTrip ==
  (/\ agg.stage = "read"
   /\ agg.from = "write"
   /\ \A i \in 1..Len(agg.messages) :
        agg.messages[i].header.stream_id = agg.message_stream_id
   /\ agg.messages # <<>> => agg.messages[1].header.timestamp = agg.aggregate_timestamp)
  => /\ agg.result = Some(Ok([rest |-> <<>>, aggregate |-> agg.messages]))
     /\ agg.messages # <<>> =>
          LET size == Len(Message_write(agg.messages[1]))
          IN  SubSeq(agg.bytes, size + 1, size + 4) = BeBytes(ToU32(size))

\* C30: reading an aggregate adds the offset (aggregate timestamp minus the
\* first sub-message's timestamp) to every sub-message's timestamp: whatever
\* the two timestamps are, the read does not fail on underflow or overflow,
\* the first sub-message ends with the aggregate's timestamp and the later
\* ones keep their distance to the first.
C30_TimestampRenormalisation ==
  (agg.stage = "read" /\ agg.from = "input" /\ agg.messages # <<>>)
  => /\ agg.result[1].kind = "ok"
     /\ Len(agg.result[1].value.aggregate) = Len(agg.messages)
     /\ agg.result[1].value.aggregate[1].header.timestamp = agg.aggregate_timestamp
     /\ \A i \in 1..Len(agg.messages) :
          WrappingSub(agg.result[1].value.aggregate[i].header.timestamp,
                      agg.result[1].value.aggregate[1].header.timestamp)
          = WrappingSub(agg.messages[i].header.timestamp,
                        agg.messages[1].header.timestamp)

====
